---------------------------- MODULE Spec2Model ----------------------------
(***************************************************************************)
(* A model of the phishing-detection prediction pipeline:                  *)
(*   utils/validators.py      InputValidator                               *)
(*   models/*.py              EmailClassifier, URLClassifier               *)
(*   services/prediction_service.py  PredictionService (the coordinator)   *)
(*   main.py, api/routes.py   the HTTP handlers that drive the coordinator *)
(*                                                                         *)
(* Text is modelled character by character: a Python str is a sequence of  *)
(* one-character strings, so that strip(), len(), split(), the regular     *)
(* expressions and urlsplit() are computed as the code computes them.      *)
(***************************************************************************)
EXTENDS Integers, Sequences, FiniteSets, TLC

(***************************************************************************)
(* Characters and Python str operations                                    *)
(***************************************************************************)

\* A str literal as a sequence of one-character strings.
Chars(s) == <<>> \o [i \in 1..Len(s) |-> SubSeq(s, i, i)]

Lowers == {"a","b","c","d","e","f","g","h","i","j","k","l","m",
           "n","o","p","q","r","s","t","u","v","w","x","y","z"}
Uppers == {"A","B","C","D","E","F","G","H","I","J","K","L","M",
           "N","O","P","Q","R","S","T","U","V","W","X","Y","Z"}
Digits == {"0","1","2","3","4","5","6","7","8","9"}
\* str.isspace() characters of the modelled alphabet.
Spaces == {" ", "\n", "\t"}
AlNum  == Lowers \cup Digits

UpperSeq == Chars("ABCDEFGHIJKLMNOPQRSTUVWXYZ")
LowerSeq == Chars("abcdefghijklmnopqrstuvwxyz")

\* str.lower() on one character.
ToLower(c) ==
    IF c \in Uppers
    THEN LowerSeq[CHOOSE i \in 1..26 : UpperSeq[i] = c]
    ELSE c

\* str.lower()
Lower(s) == <<>> \o [i \in 1..Len(s) |-> ToLower(s[i])]

\* s[i:i+len(p)] == p   (1-based i)
MatchAt(s, i, p) ==
    /\ i >= 1
    /\ i + Len(p) - 1 <= Len(s)
    /\ \A k \in 1..Len(p) : s[i + k - 1] = p[k]

\* str.startswith(p)
StartsWith(s, p) == MatchAt(s, 1, p)

\* p in s   (p non-empty)
Contains(s, p) == \E i \in 1..Len(s) : MatchAt(s, i, p)

RECURSIVE FirstNonSpace(_, _)
FirstNonSpace(s, i) ==
    IF i > Len(s) \/ s[i] \notin Spaces THEN i ELSE FirstNonSpace(s, i + 1)

RECURSIVE LastNonSpace(_, _)
LastNonSpace(s, i) ==
    IF i < 1 \/ s[i] \notin Spaces THEN i ELSE LastNonSpace(s, i - 1)

\* str.strip()
Strip(s) == SubSeq(s, FirstNonSpace(s, 1), LastNonSpace(s, Len(s)))

\* len(s.split()): the number of maximal runs of non-space characters.
SplitCount(s) ==
    Cardinality({i \in 1..Len(s) :
                    /\ s[i] \notin Spaces
                    /\ (i = 1 \/ s[i - 1] \in Spaces)})

(***************************************************************************)
(* urllib.parse.urlsplit, as far as scheme and netloc (CPython 3.11)       *)
(***************************************************************************)

\* url.replace(b, "") for b in "\t\r\n"
IsSafeChar(c) == c \notin {"\t", "\r", "\n"}
RemoveUnsafe(s) == SelectSeq(s, IsSafeChar)

SchemeChars == Lowers \cup Uppers \cup Digits \cup {"+", "-", "."}

\* 1-based position of the first occurrence of a character of cs at or
\* after position from, or Len(s) + 1 when there is none.
FindFirst(s, cs, from) ==
    LET hits == {i \in from..Len(s) : s[i] \in cs}
    IN  IF hits = {} THEN Len(s) + 1
        ELSE CHOOSE i \in hits : \A j \in hits : i <= j

HexDigits == Digits \cup {"a","b","c","d","e","f","A","B","C","D","E","F"}

\* ipaddress.IPv6Address(h) parses (_ip_int_from_string), for h without an
\* embedded IPv4 suffix or a scope id: colon-separated groups of 1..4 hex
\* digits, eight of them or fewer around a single "::".
IsIPv6(h) ==
    LET n      == Len(h)
        B      == {0, n + 1} \cup {i \in 1..n : h[i] = ":"}
        parts  == {ab \in B \X B : /\ ab[1] < ab[2]
                                   /\ ~\E c \in B : ab[1] < c /\ c < ab[2]}
        nparts == Cardinality(parts)
        empty(ab) == ab[2] = ab[1] + 1
        inner  == {ab \in parts : ab[1] # 0 /\ ab[2] # n + 1 /\ empty(ab)}
        first  == CHOOSE ab \in parts : ab[1] = 0
        last   == CHOOSE ab \in parts : ab[2] = n + 1
        skip   == CHOOSE ab \in inner : TRUE
        hi0    == Cardinality({ab \in parts : ab[2] <= skip[1]})
        lo0    == Cardinality({ab \in parts : ab[1] >= skip[2]})
        hi     == IF empty(first) THEN hi0 - 1 ELSE hi0
        lo     == IF empty(last) THEN lo0 - 1 ELSE lo0
    IN  /\ \A i \in 1..n : h[i] \in HexDigits \cup {":"}
        /\ nparts >= 3
        /\ nparts <= 9
        /\ Cardinality(inner) <= 1
        /\ \A ab \in parts : ab[2] - ab[1] - 1 <= 4
        /\ IF inner # {}
           THEN /\ empty(first) => hi = 0
                /\ empty(last) => lo = 0
                /\ 8 - (hi + lo) >= 1
           ELSE /\ nparts = 8
                /\ ~empty(first)
                /\ ~empty(last)

\* _check_bracketed_host: an IPvFuture literal (r"\Av[a-fA-F0-9]+\..+\Z") or an IPv6
\* address; anything else raises ValueError.
BracketedHostOK(h) ==
    IF h # <<>> /\ h[1] = "v"
    THEN \E d \in 2..Len(h) :
           /\ d >= 3
           /\ h[d] = "."
           /\ d < Len(h)
           /\ \A i \in 2..(d - 1) : h[i] \in HexDigits
    ELSE IsIPv6(h)

\* urlsplit(url): [raised, scheme, netloc, rest]; rest is what follows the
\* netloc (path, query and fragment, unsplit).
UrlSplit(url) ==
    LET Checked(scheme, netloc, rest) ==
            LET open  == \E i \in 1..Len(netloc) : netloc[i] = "["
                close == \E i \in 1..Len(netloc) : netloc[i] = "]"
                Host(a) == SubSeq(netloc, a + 1, FindFirst(netloc, {"]"}, a + 1) - 1)
            IN  [raised |-> \/ open # close
                            \/ open /\ ~BracketedHostOK(Host(FindFirst(netloc, {"["}, 1))),
                 scheme |-> scheme, netloc |-> netloc, rest |-> rest]
        SplitNetloc(scheme, r, delim) ==
            IF MatchAt(r, 1, <<"/", "/">>)
            THEN Checked(scheme, SubSeq(r, 3, delim - 1), SubSeq(r, delim, Len(r)))
            ELSE Checked(scheme, <<>>, r)
        SplitRest(scheme, r) == SplitNetloc(scheme, r, FindFirst(r, {"/", "?", "#"}, 3))
        SplitScheme(u, colon) ==
            IF /\ colon <= Len(u)
               /\ colon > 1
               /\ u[1] \in Lowers \cup Uppers
               /\ \A k \in 1..(colon - 1) : u[k] \in SchemeChars
            THEN SplitRest(Lower(SubSeq(u, 1, colon - 1)), SubSeq(u, colon + 1, Len(u)))
            ELSE SplitRest(<<>>, u)
        Split(u) == SplitScheme(u, FindFirst(u, {":"}, 1))
    IN  Split(RemoveUnsafe(SubSeq(url, FirstNonSpace(url, 1), Len(url))))

(***************************************************************************)
(* utils/validators.py: InputValidator                                     *)
(***************************************************************************)

\* A JSON value as a request field: k is its kind ("missing": the key is
\* absent; "null"; "num": a number other than 0; "str"), s its characters.
Val(k, s) == [k |-> k, s |-> s]
Missing == Val("missing", <<>>)
Null    == Val("null", <<>>)
Num     == Val("num", <<>>)
Str(s)  == Val("str", s)

\* The JSON body of a request or a batch item: a dict with the two optional
\* keys text and type (shape "dict"), null, a number, or a bare string (raw).
Dict(text, type) == [shape |-> "dict", text |-> text, type |-> type, raw |-> <<>>]
NullData   == [shape |-> "null", text |-> Missing, type |-> Missing, raw |-> <<>>]
NumData    == [shape |-> "num",  text |-> Missing, type |-> Missing, raw |-> <<>>]
StrData(s) == [shape |-> "str",  text |-> Missing, type |-> Missing, raw |-> s]

\* bool(data) is False: None, {} and "".
Falsy(data) ==
    \/ data.shape = "null"
    \/ data.shape = "dict" /\ data.text.k = "missing" /\ data.type.k = "missing"
    \/ data.shape = "str" /\ data.raw = <<>>

\* bool(v) is False for a field value: None and "".
FalsyVal(v) == v.k \in {"missing", "null"} \/ (v.k = "str" /\ v.s = <<>>)

Invalid(msg) == [is_valid |-> FALSE, error |-> msg]
Valid == [is_valid |-> TRUE, error |-> "None"]

EMAIL == Chars("email")
URL   == Chars("url")
\* valid_types, validators.py line 43
valid_types == {EMAIL, URL}

MAX_TEXT_LENGTH == 10000
MIN_TEXT_LENGTH == 3
MAX_URL_LENGTH  == 2048

\* r'<script[^>]*>.*?</script>' with re.IGNORECASE | re.DOTALL, re.search
HasScriptTag(text) ==
    LET l == Lower(text)
        n == Len(l)
    IN  \E i \in 1..n :
          /\ MatchAt(l, i, Chars("<script"))
          /\ \E j \in (i + 7)..n :
               /\ l[j] = ">"
               /\ \A k \in (i + 7)..(j - 1) : l[k] # ">"
               /\ \E m \in (j + 1)..n : MatchAt(l, m, Chars("</script>"))

\* the three suspicious_patterns of _validate_email_content
HasSuspiciousPattern(text) ==
    LET lowered == Lower(text)
    IN  \/ HasScriptTag(text)
        \/ Contains(lowered, Chars("javascript:"))
        \/ Contains(lowered, Chars("data:text/html"))

_validate_email_content(text) ==
    IF SplitCount(text) < 2
    THEN Invalid("Email content must contain at least 2 words")
    ELSE IF HasSuspiciousPattern(text)
    THEN Invalid("Email content contains potentially malicious patterns")
    ELSE Valid

\* --- url_pattern, matched with re.IGNORECASE from the start of the text ---
\* Each operator returns the set of positions at which the next part of the
\* pattern may start, so that every way of matching is followed.

\* ^(?:http|ftp)s?://
SchemeEnds(u) ==
    {Len(p) + 1 : p \in {p \in {Chars("http://"), Chars("https://"),
                                Chars("ftp://"), Chars("ftps://")} :
                            StartsWith(u, p)}}

\* [A-Z0-9](?:[A-Z0-9-]{0,61}[A-Z0-9])?  on u[a..b]
IsLabel(u, a, b) ==
    /\ b >= a
    /\ b - a + 1 <= 63
    /\ u[a] \in AlNum
    /\ u[b] \in AlNum
    /\ \A k \in a..b : u[k] \in AlNum \cup {"-"}

\* one more  label\.  from a position of P
LabelDot(u, P) ==
    UNION {{p + k + 1 : k \in {k \in 1..63 :
                                  /\ p + k <= Len(u)
                                  /\ u[p + k] = "."
                                  /\ IsLabel(u, p, p + k - 1)}} : p \in P}

RECURSIVE LabelDotStar(_, _)
LabelDotStar(u, P) ==
    LET Q == P \cup LabelDot(u, P)
    IN  IF Q = P THEN P ELSE LabelDotStar(u, Q)

\* (?:label\.)+[A-Z]{2,6}\.?
DomainEnds(u, p) ==
    LET starts == LabelDotStar(u, LabelDot(u, {p}))
        tld == {q + k : q \in starts, k \in 2..6} 
        ok  == {e \in tld : \E q \in starts :
                   /\ e - q \in 2..6
                   /\ e - 1 <= Len(u)
                   /\ \A j \in q..(e - 1) : u[j] \in Lowers}
    IN  ok \cup {e + 1 : e \in {e \in ok : e <= Len(u) /\ u[e] = "."}}

\* \d{1,3}
DigitRun(u, P) ==
    {p + k : p \in P, k \in 1..3} \cap
    {e \in 1..(Len(u) + 1) : \E p \in P :
        /\ e - p \in 1..3
        /\ \A j \in p..(e - 1) : u[j] \in Digits}

\* \.
Dot(u, P) == {p + 1 : p \in {p \in P : p <= Len(u) /\ u[p] = "."}}

\* \d{1,3}\.\d{1,3}\.\d{1,3}\.\d{1,3}
IPEnds(u, p) ==
    DigitRun(u, Dot(u, DigitRun(u, Dot(u, DigitRun(u, Dot(u, DigitRun(u, {p})))))))

\* domain | localhost | IP
HostEnds(u, p) ==
    DomainEnds(u, p)
      \cup (IF MatchAt(u, p, Chars("localhost")) THEN {p + 9} ELSE {})
      \cup IPEnds(u, p)

\* (?::\d+)?
PortEnds(u, P) ==
    P \cup {e \in 1..(Len(u) + 1) : \E p \in P :
               /\ p <= Len(u)
               /\ u[p] = ":"
               /\ e >= p + 2
               /\ \A j \in (p + 1)..(e - 1) : u[j] \in Digits}

\* (?:/?|[/?]\S+)$
TailOK(u, t) ==
    \/ t = Len(u) + 1
    \/ t = Len(u) /\ u[t] = "/"
    \/ /\ t < Len(u)
       /\ u[t] \in {"/", "?"}
       /\ \A j \in (t + 1)..Len(u) : u[j] \notin Spaces

\* url_pattern.match(test_url)
UrlPatternMatch(test_url) ==
    LET u == Lower(test_url)
    IN  \E p \in SchemeEnds(u) :
          \E h \in HostEnds(u, p) :
            \E t \in PortEnds(u, {h}) : TailOK(u, t)

\* test_url of _validate_url_content: 'http://' is prefixed unless the text
\* starts (case-sensitively) with http:// or https://
TestUrl(text) ==
    IF StartsWith(text, Chars("http://")) \/ StartsWith(text, Chars("https://"))
    THEN text
    ELSE Chars("http://") \o text

\* _validate_url_content without the length check of lines 194-199
_validate_url_content_uncapped(text) ==
    LET NoNetloc(parsed) == parsed.raised \/ parsed.netloc = <<>>
        BadFormat(test_url) == ~UrlPatternMatch(test_url) /\ NoNetloc(UrlSplit(test_url))
    IN  IF BadFormat(TestUrl(text))
        THEN Invalid("Invalid URL format")
        ELSE Valid

_validate_url_content(text) ==
    LET NoNetloc(parsed) == parsed.raised \/ parsed.netloc = <<>>
        BadFormat(test_url) == ~UrlPatternMatch(test_url) /\ NoNetloc(UrlSplit(test_url))
    IN  IF BadFormat(TestUrl(text))
        THEN Invalid("Invalid URL format")
        ELSE IF Len(text) > MAX_URL_LENGTH
        THEN Invalid("URL is too long (max 2048 characters)")
        ELSE Valid

\* text is a field value, content_type a str
_validate_text_content(text, content_type) ==
    IF FalsyVal(text) \/ text.k # "str"
    THEN Invalid("Text content must be a non-empty string")
    ELSE LET t == Strip(text.s)
         IN  IF t = <<>>
             THEN Invalid("Text content cannot be empty")
             ELSE IF Len(t) > MAX_TEXT_LENGTH
             THEN Invalid("Text content is too long (max 10,000 characters)")
             ELSE IF Len(t) < MIN_TEXT_LENGTH
             THEN Invalid("Text content is too short (min 3 characters)")
             ELSE IF content_type = EMAIL THEN _validate_email_content(t)
             ELSE IF content_type = URL THEN _validate_url_content(t)
             ELSE Valid

\* validate_prediction_input comparing the type the way main.py does,
\* data['type'].strip().lower(), instead of the value as given
validate_prediction_input_normalizing_type(data) ==
    IF Falsy(data)
    THEN Invalid("Request data is required")
    ELSE IF data.shape = "num"
    THEN Invalid("Validation error occurred")
    ELSE IF (data.shape = "dict" /\ data.text.k = "missing")
            \/ (data.shape = "str" /\ ~Contains(data.raw, Chars("text")))
    THEN Invalid("Text field is required")
    ELSE IF (data.shape = "dict" /\ data.type.k = "missing")
            \/ (data.shape = "str" /\ ~Contains(data.raw, Chars("type")))
    THEN Invalid("Type field is required")
    ELSE IF data.shape = "str"
    THEN Invalid("Validation error occurred")
    ELSE IF data.type.k # "str" \/ Lower(Strip(data.type.s)) \notin valid_types
    THEN Invalid("Type must be one of: email, url")
    ELSE _validate_text_content(data.text, Lower(Strip(data.type.s)))

\* 'key' not in data  raises TypeError when data is a number
validate_prediction_input(data) ==
    IF Falsy(data)
    THEN Invalid("Request data is required")
    ELSE IF data.shape = "num"
    THEN Invalid("Validation error occurred")
    ELSE IF (data.shape = "dict" /\ data.text.k = "missing")
            \/ (data.shape = "str" /\ ~Contains(data.raw, Chars("text")))
    THEN Invalid("Text field is required")
    ELSE IF (data.shape = "dict" /\ data.type.k = "missing")
            \/ (data.shape = "str" /\ ~Contains(data.raw, Chars("type")))
    THEN Invalid("Type field is required")
    ELSE IF data.shape = "str"
    THEN Invalid("Validation error occurred")
    ELSE IF data.type.k # "str" \/ data.type.s \notin valid_types
    THEN Invalid("Type must be one of: email, url")
    ELSE _validate_text_content(data.text, data.type.s)

(***************************************************************************)
(* utils/text_preprocessor.py: TextPreprocessor.preprocess_email           *)
(*                                                                         *)
(* Every re.sub is computed as "mark the characters of the matches, then   *)
(* drop the marked ones"; the comments say why the leftmost non-overlapping*)
(* matches of each pattern are exactly the marked characters.              *)
(***************************************************************************)

\* Placeholder of a character that a substitution removes.
DEL == ""
IsKept(c) == c # DEL
Drop(marked) == SelectSeq(marked, IsKept)

\* i and j lie in the same maximal run of non-space characters (i <= j).
SameWord(s, sp, i, j) == ~\E k \in sp : i <= k /\ k <= j

\* re.sub(r'http\S+|www\S+|https\S+', '', text): a match starts at "http" or
\* "www" followed by a non-space character and runs to the end of the word.
RemoveLinks(s) ==
    LET n  == Len(s)
        sp == {k \in 1..n : s[k] \in Spaces}
        H  == {j \in 1..n :
                 \/ MatchAt(s, j, Chars("http")) /\ j + 4 <= n /\ s[j + 4] \notin Spaces
                 \/ MatchAt(s, j, Chars("www")) /\ j + 3 <= n /\ s[j + 3] \notin Spaces}
    IN  Drop([i \in 1..n |->
                IF \E j \in H : j <= i /\ SameWord(s, sp, j, i) THEN DEL ELSE s[i]])

\* re.sub(r'\S+@\S+', '', text): a word with an "@" that has a character of
\* the word on both sides is removed whole.
RemoveAddresses(s) ==
    LET n  == Len(s)
        sp == {k \in 1..n : s[k] \in Spaces}
        AT == {k \in 2..(n - 1) :
                 s[k] = "@" /\ s[k - 1] \notin Spaces /\ s[k + 1] \notin Spaces}
    IN  Drop([i \in 1..n |->
                IF /\ s[i] \notin Spaces
                   /\ \E k \in AT : IF k <= i THEN SameWord(s, sp, k, i)
                                              ELSE SameWord(s, sp, i, k)
                THEN DEL ELSE s[i]])

\* \w
WordChars == Lowers \cup Uppers \cup Digits \cup {"_"}

\* \b before position i (between s[i-1] and s[i])
Boundary(s, i) ==
    LET before == i > 1 /\ i - 1 <= Len(s) /\ s[i - 1] \in WordChars
        after  == i >= 1 /\ i <= Len(s) /\ s[i] \in WordChars
    IN  before # after

\* \d{k} from each position of P
DigitsExact(s, P, k) ==
    {p + k : p \in {p \in P : /\ p + k - 1 <= Len(s)
                              /\ \A j \in p..(p + k - 1) : s[j] \in Digits}}

\* [-.]?
OptSep(s, P) == P \cup {p + 1 : p \in {p \in P : p <= Len(s) /\ s[p] \in {"-", "."}}}

\* the positions after a match of \b\d{3}[-.]?\d{3}[-.]?\d{4}\b starting at a
PhoneEnds(s, a) ==
    IF ~Boundary(s, a) THEN {}
    ELSE {e \in DigitsExact(s, OptSep(s, DigitsExact(s, OptSep(s,
                    DigitsExact(s, {a}, 3)), 3)), 4) : Boundary(s, e)}

\* re.sub(r'\b\d{3}[-.]?\d{3}[-.]?\d{4}\b', '', text): two matches never
\* overlap (a second one would have to start inside the digits of the first).
RemovePhones(s) ==
    LET n == Len(s)
        M == {a \in 1..n : PhoneEnds(s, a) # {}}
    IN  Drop([i \in 1..n |->
                IF \E a \in M : a <= i /\ \E e \in PhoneEnds(s, a) : i < e
                THEN DEL ELSE s[i]])

\* re.sub(r'<[^>]+>', '', text): a match starts at a "<" not followed by ">"
\* and ends at the next ">"; a "<" inside a match ends at the same ">".
RemoveTags(s) ==
    LET n  == Len(s)
        LT == {i \in 1..(n - 2) :
                 s[i] = "<" /\ s[i + 1] # ">" /\ FindFirst(s, {">"}, i + 1) <= n}
    IN  Drop([k \in 1..n |->
                IF \E i \in LT : i <= k /\ k <= FindFirst(s, {">"}, i + 1)
                THEN DEL ELSE s[k]])

\* re.sub(r'\s+', ' ', text)
CollapseSpaces(s) ==
    Drop([i \in 1..Len(s) |->
            IF s[i] \notin Spaces THEN s[i]
            ELSE IF i > 1 /\ s[i - 1] \in Spaces THEN DEL ELSE " "])

\* string.punctuation (without the backquote, which a TLA+ string cannot
\* hold and no text of the model contains)
Punctuation == {"!", "\"", "#", "$", "%", "&", "'", "(", ")", "*", "+", ",",
                "-", ".", "/", ":", ";", "<", "=", ">", "?", "@", "[", "\\",
                "]", "^", "_", "{", "|", "}", "~"}

IsNotPunctuation(c) == c \notin Punctuation
IsNotDigit(c) == c \notin Digits

\* preprocess_email without the guard of lines 23-24, processing str(text)
\* when text is not a str
preprocess_email_coercing(text) ==
    LET t1 == RemoveLinks(IF text.k = "str" THEN text.s
                          ELSE IF text.k = "num" THEN Chars("5")
                          ELSE Chars("None"))
        t2 == RemoveAddresses(t1)
        t3 == RemovePhones(t2)
        t4 == RemoveTags(t3)
        t5 == CollapseSpaces(t4)
        t6 == Lower(t5)
        t7 == SelectSeq(t6, IsNotPunctuation)
        t8 == SelectSeq(t7, IsNotDigit)
    IN  Strip(t8)

\* preprocess_email(text) for a field value text; the except branch
\* (lines 55-57) returns '' as well
preprocess_email(text) ==
    IF FalsyVal(text) \/ text.k # "str" THEN <<>>
    ELSE LET t1 == RemoveLinks(text.s)
             t2 == RemoveAddresses(t1)
             t3 == RemovePhones(t2)
             t4 == RemoveTags(t3)
             t5 == CollapseSpaces(t4)
             t6 == Lower(t5)
             t7 == SelectSeq(t6, IsNotPunctuation)
             t8 == SelectSeq(t7, IsNotDigit)
         IN  Strip(t8)

(***************************************************************************)
(* models/url_classifier.py: URLClassifier feature extraction              *)
(***************************************************************************)

\* [0-9]{1,3}
DigitRun13(s, P) ==
    UNION {{p + k : k \in {k \in 1..3 :
                              /\ p + k - 1 <= Len(s)
                              /\ \A j \in p..(p + k - 1) : s[j] \in Digits}} : p \in P}

\* re.search(r'\b(?:[0-9]{1,3}\.){3}[0-9]{1,3}\b', url)
_has_ip_address(url) ==
    IF \E a \in 1..Len(url) :
         /\ Boundary(url, a)
         /\ \E e \in DigitRun13(url, Dot(url, DigitRun13(url, Dot(url,
                       DigitRun13(url, Dot(url, DigitRun13(url, {a}))))))) :
              Boundary(url, e)
    THEN 1 ELSE -1

_get_url_length_category(length) ==
    IF length < 54 THEN -1
    ELSE IF length <= 75 THEN 0
    ELSE 1

shortening_services ==
    {Chars("bit.ly"), Chars("tinyurl.com"), Chars("goo.gl"), Chars("t.co"),
     Chars("short.link"), Chars("ow.ly"), Chars("is.gd")}

_has_shortening_service(url) ==
    LET lowered == Lower(url)
    IN  IF \E service \in shortening_services : Contains(lowered, service)
        THEN 1 ELSE -1

\* url.count('//'): non-overlapping occurrences, so a run of m slashes
\* counts m \div 2; position i starts an occurrence when it is at an even
\* offset in its run of slashes.
CountDoubleSlash(url) ==
    LET n == Len(url)
        runStart(i) == CHOOSE a \in 1..i :
                          /\ \A k \in a..i : url[k] = "/"
                          /\ (a = 1 \/ url[a - 1] # "/")
    IN  Cardinality({i \in 1..(n - 1) :
                        /\ url[i] = "/"
                        /\ url[i + 1] = "/"
                        /\ (i - runStart(i)) % 2 = 0})

_has_double_slash_redirect(url) == IF CountDoubleSlash(url) > 1 THEN 1 ELSE -1

_has_prefix_suffix(domain) ==
    IF \E i \in 1..Len(domain) : domain[i] = "-" THEN 1 ELSE -1

_count_subdomains(domain) ==
    LET subdomain_count == Cardinality({i \in 1..Len(domain) : domain[i] = "."})
    IN  IF domain = <<>> THEN -1
        ELSE IF subdomain_count <= 1 THEN -1
        ELSE IF subdomain_count = 2 THEN 0
        ELSE 1

\* the value with which the unmodelled feature slots are filled
PAD_FEATURE == 0

\* the exception that leaves extract_features
ExtractionRaised(type, msg) ==
    [raised |-> TRUE, exc |-> type, msg |-> msg, features |-> <<>>]

\* extract_features(url) of a classifier that expects expected_features
\* features: [raised, exc, msg, features].  urlparse raises on a number
\* and on a badly bracketed netloc, re.search on null;
\* range(remaining_features) is empty when fewer than seven features are
\* expected.
extract_features(url, expected_features) ==
    IF url.k = "num"
    THEN ExtractionRaised("AttributeError", "'int' object has no attribute 'decode'")
    ELSE IF url.k # "str"
    THEN ExtractionRaised("TypeError", "expected string or bytes-like object, got 'NoneType'")
    ELSE LET Padded(features) ==
                 IF expected_features > Len(features)
                 THEN features \o
                        [i \in 1..(expected_features - Len(features)) |-> PAD_FEATURE]
                 ELSE features
             Features(parsed_url) ==
                 IF parsed_url.raised
                 THEN \* the message of the unbalanced-bracket case
                      ExtractionRaised("ValueError", "Invalid IPv6 URL")
                 ELSE [raised |-> FALSE, exc |-> "", msg |-> "",
                       features |->
                         Padded(<< _has_ip_address(url.s),
                                   _get_url_length_category(Len(url.s)),
                                   _has_shortening_service(url.s),
                                   IF \E i \in 1..Len(url.s) : url.s[i] = "@"
                                   THEN 1 ELSE -1,
                                   _has_double_slash_redirect(url.s),
                                   _has_prefix_suffix(parsed_url.netloc),
                                   _count_subdomains(parsed_url.netloc) >>)]
         IN  Features(UrlSplit(url.s))

(***************************************************************************)
(* Model files and the trained models                                      *)
(*                                                                         *)
(* A trained model is an input of the program.  The files under            *)
(* models/saved_models belong to a release r >= 1; None is 0.  What a      *)
(* model answers is a fixed function of its release and its input, so two  *)
(* calls with the same model and input agree.                              *)
(***************************************************************************)

NumEmailModels == 2
NumUrlModels == 2

None == 0
EmailReleases == 1..NumEmailModels
UrlReleases   == 1..NumUrlModels

\* URLClassifier.__init__: expected_features before any load
DEFAULT_EXPECTED_FEATURES == 30

\* model.n_features_in_ of the URL model of release r
FeatureDimOf(r) ==
    IF r % 3 = 1 THEN DEFAULT_EXPECTED_FEATURES
    ELSE IF r % 3 = 2 THEN 5
    ELSE 7

\* Confidences are kept in units of 1/10000 (four decimals).
ConfLevels == <<5000, 5999, 6000, 7999, 8000, 10000>>

\* the answer of release r on an input summarised by the number h: its
\* model.predict(x)[0] and the probability that its model.predict_proba(x)[0]
\* gives to that class
ModelOutput(r, h) ==
    [prediction |-> (h + r) % 2,
     confidence |-> ConfLevels[(((h \div 2) + r) % Len(ConfLevels)) + 1]]

RECURSIVE SumSeq(_)
SumSeq(f) == IF f = <<>> THEN 0 ELSE Head(f) + SumSeq(Tail(f))

NoPair == [prediction |-> -1, confidence |-> 0]

Raise(type, msg) == [exc |-> type, msg |-> msg, pair |-> NoPair]
Return(pair)     == [exc |-> "", msg |-> "", pair |-> pair]

(***************************************************************************)
(* models/email_classifier.py, models/url_classifier.py                    *)
(***************************************************************************)

\* EmailClassifier.__init__
NewEmailClassifier == [model |-> None, vectorizer |-> None, is_loaded |-> FALSE]

\* URLClassifier.__init__
NewURLClassifier ==
    [model |-> None, is_loaded |-> FALSE,
     expected_features |-> DEFAULT_EXPECTED_FEATURES]

\* What a load finds on disk: "model_fail" (joblib.load of the model file
\* raises), "part_fail" (the model loads and the next step raises: the
\* vectorizer file for the email classifier, model.n_features_in_ for the URL
\* classifier), "ok"; r is the release of the files.
FileOutcomes == {"model_fail", "part_fail", "ok"}

\* EmailClassifier.load_model: [raised, ec]
EmailLoadModel(ec, outcome, r) ==
    IF outcome = "model_fail"
    THEN [raised |-> TRUE, c |-> ec]
    ELSE IF outcome = "part_fail"
    THEN [raised |-> TRUE, c |-> [ec EXCEPT !.model = r]]
    ELSE [raised |-> FALSE,
          c |-> [model |-> r, vectorizer |-> r, is_loaded |-> TRUE]]

\* URLClassifier.load_model: [raised, uc]
URLLoadModel(uc, outcome, r) ==
    IF outcome = "model_fail"
    THEN [raised |-> TRUE, c |-> uc]
    ELSE IF outcome = "part_fail"
    THEN [raised |-> TRUE, c |-> [uc EXCEPT !.model = r]]
    ELSE [raised |-> FALSE,
          c |-> [model |-> r, is_loaded |-> TRUE,
                 expected_features |-> FeatureDimOf(r)]]

\* model.predict_proba(x)[0] of a model whose answer is out: the two class
\* probabilities, the larger one on the predicted class
Probabilities(out) ==
    IF out.prediction = 1 THEN <<10000 - out.confidence, out.confidence>>
    ELSE <<out.confidence, 10000 - out.confidence>>

\* EmailClassifier.predict with probabilities[0], the probability of the
\* first class, in place of np.max(probabilities)
EmailClassifierPredictFirstClass(ec, text) ==
    IF ~ec.is_loaded
    THEN Raise("RuntimeError", "Model not loaded")
    ELSE IF ec.vectorizer # ec.model
    THEN Raise("ValueError", "X has a different number of features than the model expects")
    ELSE LET Answer(prediction, probabilities) ==
                 Return([prediction |-> prediction, confidence |-> probabilities[1]])
             Of(out) == Answer(out.prediction, Probabilities(out))
         IN  Of(ModelOutput(ec.model, Len(text)))

\* EmailClassifier.predict(text): vectorizer.transform, model.predict,
\* model.predict_proba and np.max; the model raises ValueError on features
\* of another vocabulary than the one it was fitted on.
EmailClassifierPredict(ec, text) ==
    IF ~ec.is_loaded
    THEN Raise("RuntimeError", "Model not loaded")
    ELSE IF ec.vectorizer # ec.model
    THEN Raise("ValueError", "X has a different number of features than the model expects")
    ELSE LET Answer(prediction, probabilities) ==
                 Return([prediction |-> prediction,
                         confidence |->
                             CHOOSE p \in {probabilities[i] : i \in 1..Len(probabilities)} :
                                 \A i \in 1..Len(probabilities) : probabilities[i] <= p])
             Of(out) == Answer(out.prediction, Probabilities(out))
         IN  Of(ModelOutput(ec.model, Len(text)))

\* EmailClassifier.predict_proba(text): [exc, msg, probabilities]
EmailClassifierPredictProba(ec, text) ==
    IF ~ec.is_loaded
    THEN [exc |-> "RuntimeError", msg |-> "Model not loaded", probabilities |-> <<>>]
    ELSE IF ec.vectorizer # ec.model
    THEN [exc |-> "ValueError",
          msg |-> "X has a different number of features than the model expects",
          probabilities |-> <<>>]
    ELSE [exc |-> "", msg |-> "",
          probabilities |-> Probabilities(ModelOutput(ec.model, Len(text)))]

\* URLClassifier.predict_proba(features): [exc, msg, probabilities]
URLClassifierPredictProba(uc, features) ==
    IF ~uc.is_loaded
    THEN [exc |-> "RuntimeError", msg |-> "Model not loaded", probabilities |-> <<>>]
    ELSE IF Len(features) # FeatureDimOf(uc.model)
    THEN [exc |-> "ValueError",
          msg |-> "X has a different number of features than the model expects",
          probabilities |-> <<>>]
    ELSE [exc |-> "", msg |-> "",
          probabilities |->
              Probabilities(ModelOutput(uc.model, SumSeq(features) + Len(features)))]

\* URLClassifier.predict guarded by "self.model is None" instead of
\* "not self.is_loaded"
URLClassifierPredictIfModelSet(uc, features) ==
    IF uc.model = None
    THEN Raise("RuntimeError", "Model not loaded")
    ELSE IF Len(features) # FeatureDimOf(uc.model)
    THEN Raise("ValueError", "X has a different number of features than the model expects")
    ELSE LET Answer(prediction, probabilities) ==
                 Return([prediction |-> prediction,
                         confidence |->
                             CHOOSE p \in {probabilities[i] : i \in 1..Len(probabilities)} :
                                 \A i \in 1..Len(probabilities) : probabilities[i] <= p])
             Of(out) == Answer(out.prediction, Probabilities(out))
         IN  Of(ModelOutput(uc.model, SumSeq(features) + Len(features)))

\* URLClassifier.predict(features): model.predict, model.predict_proba and
\* np.max; the model raises ValueError unless it is given n_features_in_
\* features.
URLClassifierPredict(uc, features) ==
    IF ~uc.is_loaded
    THEN Raise("RuntimeError", "Model not loaded")
    ELSE IF Len(features) # FeatureDimOf(uc.model)
    THEN Raise("ValueError", "X has a different number of features than the model expects")
    ELSE LET Answer(prediction, probabilities) ==
                 Return([prediction |-> prediction,
                         confidence |->
                             CHOOSE p \in {probabilities[i] : i \in 1..Len(probabilities)} :
                                 \A i \in 1..Len(probabilities) : probabilities[i] <= p])
             Of(out) == Answer(out.prediction, Probabilities(out))
         IN  Of(ModelOutput(uc.model, SumSeq(features) + Len(features)))

(***************************************************************************)
(* services/prediction_service.py: PredictionService                       *)
(***************************************************************************)

\* PredictionService.__init__
NewService ==
    [exists |-> TRUE, models_loaded |-> FALSE,
     email_classifier |-> NewEmailClassifier,
     url_classifier |-> NewURLClassifier]

\* prediction_service = None (routes.py, when the constructor raised)
NoService == [NewService EXCEPT !.exists = FALSE]

\* What load_models finds: the models directory exists or not, and the
\* outcome and release of each classifier's files.
LoadOutcomes ==
    [dir : BOOLEAN, email : FileOutcomes, erel : EmailReleases,
     url : FileOutcomes, urel : UrlReleases]

\* load_models with models_loaded set as soon as the email classifier
\* has loaded, before the URL classifier is tried
load_models_flag_early(svc, o) ==
    IF ~o.dir THEN [raised |-> TRUE, svc |-> svc]
    ELSE LET e  == EmailLoadModel(svc.email_classifier, o.email, o.erel)
             s1 == [svc EXCEPT !.email_classifier = e.c]
             u  == URLLoadModel(svc.url_classifier, o.url, o.urel)
             s2 == [s1 EXCEPT !.url_classifier = u.c, !.models_loaded = TRUE]
         IN  IF e.raised THEN [raised |-> TRUE, svc |-> s1]
             ELSE [raised |-> u.raised, svc |-> s2]

\* load_models: [raised, svc]
load_models(svc, o) ==
    IF ~o.dir THEN [raised |-> TRUE, svc |-> svc]
    ELSE LET e  == EmailLoadModel(svc.email_classifier, o.email, o.erel)
             s1 == [svc EXCEPT !.email_classifier = e.c]
             u  == URLLoadModel(svc.url_classifier, o.url, o.urel)
             s2 == [s1 EXCEPT !.url_classifier = u.c]
         IN  IF e.raised THEN [raised |-> TRUE, svc |-> s1]
             ELSE IF u.raised THEN [raised |-> TRUE, svc |-> s2]
             ELSE [raised |-> FALSE, svc |-> [s2 EXCEPT !.models_loaded = TRUE]]

HIGH_RISK_CONFIDENCE   == 8000
MEDIUM_RISK_CONFIDENCE == 6000

\* _calculate_risk_level with > in place of >= at both thresholds
_calculate_risk_level_strict(confidence, is_phishing) ==
    IF ~is_phishing THEN "Low"
    ELSE IF confidence > HIGH_RISK_CONFIDENCE THEN "High"
    ELSE IF confidence > MEDIUM_RISK_CONFIDENCE THEN "Medium"
    ELSE "Low"

_calculate_risk_level(confidence, is_phishing) ==
    IF ~is_phishing THEN "Low"
    ELSE IF confidence >= HIGH_RISK_CONFIDENCE THEN "High"
    ELSE IF confidence >= MEDIUM_RISK_CONFIDENCE THEN "Medium"
    ELSE "Low"

NoResult ==
    [prediction |-> "", confidence |-> 0, risk_level |-> "",
     content_type |-> "", raw_prediction |-> -1]

\* the outcome of a coordinator call: the exception raised ("" when it
\* returned), its message, the result, the pipeline stages it invoked, and
\* the texts that it handed to the normalizer or the feature extractor
Raised(type, msg, calls) ==
    [exc |-> type, msg |-> msg, result |-> NoResult, calls |-> calls,
     piped |-> <<>>]
Returned(result, calls) ==
    [exc |-> "", msg |-> "", result |-> result, calls |-> calls,
     piped |-> <<>>]

\* the label mapping and result assembly shared by _predict_email and
\* _predict_url
Assemble(pair, content_type) ==
    LET prediction == IF pair.prediction = 1 THEN "Phishing" ELSE "Safe"
    IN  [prediction |-> prediction,
         confidence |-> pair.confidence,
         risk_level |-> _calculate_risk_level(pair.confidence, prediction = "Phishing"),
         content_type |-> content_type,
         raw_prediction |-> pair.prediction]

_predict_email(svc, text) ==
    LET Classified(p) ==
            IF p.exc # ""
            THEN Raised(p.exc, p.msg, <<"normalize", "classify">>)
            ELSE Returned(Assemble(p.pair, "email"), <<"normalize", "classify">>)
        Processed(processed_text) ==
            Classified(EmailClassifierPredict(svc.email_classifier, processed_text))
    IN  [Processed(preprocess_email(text)) EXCEPT !.piped = <<text>>]

_predict_url(svc, url) ==
    LET Classified(p) ==
            IF p.exc # ""
            THEN Raised(p.exc, p.msg, <<"extract", "classify">>)
            ELSE Returned(Assemble(p.pair, "url"), <<"extract", "classify">>)
        Extracted(f) ==
            IF f.raised
            THEN Raised(f.exc, f.msg, <<"extract">>)
            ELSE Classified(URLClassifierPredict(svc.url_classifier, f.features))
    IN  [Extracted(extract_features(url, svc.url_classifier.expected_features))
           EXCEPT !.piped = <<url>>]

\* predict_text(text, content_type); content_type.lower() raises
\* AttributeError unless content_type is a str
predict_text(svc, text, content_type) ==
    IF ~svc.models_loaded
    THEN Raised("RuntimeError", "Models not loaded", <<>>)
    ELSE IF content_type.k # "str"
    THEN Raised("AttributeError", "object has no attribute 'lower'", <<>>)
    ELSE IF Lower(content_type.s) = EMAIL THEN _predict_email(svc, text)
    ELSE IF Lower(content_type.s) = URL THEN _predict_url(svc, text)
    ELSE Raised("ValueError", "Invalid content type", <<>>)

\* get_model_info()
get_model_info(svc) ==
    [models_loaded |-> svc.models_loaded,
     email_classifier_loaded |-> svc.email_classifier.is_loaded,
     url_classifier_loaded |-> svc.url_classifier.is_loaded]

\* predict(text, detection_type)
predict(svc, text, detection_type) == predict_text(svc, text, detection_type)

(***************************************************************************)
(* Batch processing                                                        *)
(***************************************************************************)

\* the index of an entry that carries no 'index' key
NoIndex == -1

\* one entry of a batch result list
Entry(index, success, error, result) ==
    [index |-> index, success |-> success, error |-> error, result |-> result]

BatchRaised(type, msg, calls) ==
    [exc |-> type, msg |-> msg, results |-> <<>>, calls |-> calls]

\* item['text'] and item['type'] of predict_batch: KeyError on a dict
\* without the key, TypeError on an item that is not a dict
ItemSubscript(item) ==
    IF item.shape # "dict" THEN Raise("TypeError", "item is not subscriptable")
    ELSE IF item.text.k = "missing" THEN Raise("KeyError", "'text'")
    ELSE IF item.type.k = "missing" THEN Raise("KeyError", "'type'")
    ELSE Return(NoPair)

\* item.get('text', '')[:50] + '...' of the except branch of predict_batch
\* raises in its turn when the item is not a dict (AttributeError) or its
\* text is not a str (TypeError)
HandlerRaises(item) ==
    \/ item.shape # "dict"
    \/ item.text.k \in {"null", "num"}

\* the try block of the loop of predict_batch for one item
BatchItemOutcome(svc, item) ==
    LET sub == ItemSubscript(item)
    IN  IF sub.exc # "" THEN Raised(sub.exc, sub.msg, <<>>)
        ELSE predict_text(svc, item.text, item.type)

\* PredictionService.predict_batch(items): the loop ends at the first item
\* whose except branch raises; calls[i] are the pipeline stages run for
\* item i
predict_batch(svc, items) ==
    LET Collected(outs) ==
            LET aborting == {i \in 1..Len(items) :
                                outs[i].exc # "" /\ HandlerRaises(items[i])}
                Stages(n) == <<>> \o [i \in 1..n |-> outs[i].calls]
                Abort(k)  ==
                    BatchRaised(IF items[k].shape # "dict" THEN "AttributeError"
                                ELSE "TypeError",
                                "error while reporting the failed item", Stages(k))
            IN  IF aborting # {}
                THEN Abort(CHOOSE k \in aborting : \A j \in aborting : k <= j)
                ELSE [exc |-> "", msg |-> "",
                      results |-> <<>> \o
                          [i \in 1..Len(items) |->
                              IF outs[i].exc = ""
                              THEN Entry(NoIndex, TRUE, "", outs[i].result)
                              ELSE Entry(NoIndex, FALSE, outs[i].msg, NoResult)],
                      calls |-> Stages(Len(items))]
    IN  Collected(<<>> \o [i \in 1..Len(items) |-> BatchItemOutcome(svc, items[i])])

(***************************************************************************)
(* The HTTP handlers of main.py and api/routes.py                          *)
(***************************************************************************)

\* the JSON body of a batch request: null, a dict without 'items', a dict
\* whose 'items' is a non-empty str (shape "notlist": items holds its
\* characters, which is what iterating over it yields), or a list of items
Body(shape, items) == [shape |-> shape, items |-> items]
NoBody == Body("null", <<>>)

\* routes.py line 124
MAX_BATCH_SIZE == 50

\* what a handler answers: HTTP status, error message, single result,
\* whether the body carries a results list, the list, and what ran (piped:
\* the texts that a single prediction handed to the pipeline); the
\* 'metadata' counts of a batch answer of routes.py are 0 in every other
\* answer
Response(status, error, result, has_results, results, validated, validation, calls) ==
    [status |-> status, error |-> error, result |-> result,
     has_results |-> has_results, results |-> results,
     validated |-> validated, validation |-> validation, calls |-> calls,
     piped |-> <<>>, total_items |-> 0, successful_predictions |-> 0]

ErrorResponse(status, error) ==
    Response(status, error, NoResult, FALSE, <<>>, FALSE, Valid, <<>>)

\* main.py predict(): data.get('text', '').strip() and
\* data.get('type', '').strip().lower() raise AttributeError on a body
\* that is not a dict and on a field that is not a str
main_predict(svc, data) ==
    IF Falsy(data)
    THEN ErrorResponse(400, "No JSON data provided")
    ELSE IF \/ data.shape # "dict"
            \/ data.text.k \in {"null", "num"}
            \/ data.type.k \in {"null", "num"}
    THEN ErrorResponse(500, "Prediction failed: " \o "object has no such attribute")
    ELSE LET Answer(r) ==
                 [IF r.exc # ""
                  THEN Response(500, "Prediction failed: " \o r.msg, NoResult,
                                FALSE, <<>>, FALSE, Valid, <<r.calls>>)
                  ELSE Response(200, "", r.result, FALSE, <<>>, FALSE, Valid,
                                <<r.calls>>)
                    EXCEPT !.piped = r.piped]
             Checked(text, content_type) ==
                 IF text = <<>>
                 THEN ErrorResponse(400, "Text content is required")
                 ELSE IF content_type \notin {EMAIL, URL}
                 THEN ErrorResponse(400, "Type must be either \"email\" or \"url\"")
                 ELSE Answer(predict_text(svc, Str(text), Str(content_type)))
         IN  Checked(Strip(data.text.s), Lower(Strip(data.type.s)))

\* main.py batch_predict(): data.get raises AttributeError on a null body
main_batch_predict(svc, body) ==
    IF body.shape = "null"
    THEN ErrorResponse(500, "'NoneType' object has no attribute 'get'")
    ELSE IF body.shape = "nokey" \/ body.items = <<>>
    THEN ErrorResponse(400, "No items provided")
    ELSE LET Answer(b) ==
                 IF b.exc # ""
                 THEN Response(500, b.msg, NoResult, FALSE, <<>>, FALSE, Valid, b.calls)
                 ELSE Response(200, "", NoResult, TRUE, b.results, FALSE, Valid, b.calls)
         IN  Answer(predict_batch(svc, body.items))

\* the 'data' object of an api result: prediction, confidence, risk_level
\* and detection_type (the item's own type)
\* round(confidence, 4) leaves a confidence kept in units of 1/10000 as
\* it is
ApiData(result, type) ==
    [result EXCEPT !.content_type = IF type.s = EMAIL THEN "email" ELSE "url",
                   !.raw_prediction = -1]

\* routes.py api_predict()
api_predict(svc, data) ==
    IF ~svc.exists
    THEN ErrorResponse(503, "Prediction service unavailable")
    ELSE LET Answer(v, r) ==
                 [IF r.exc # ""
                  THEN Response(500, "Internal server error", NoResult, FALSE, <<>>,
                                TRUE, v, <<r.calls>>)
                  ELSE Response(200, "", ApiData(r.result, data.type), FALSE, <<>>,
                                TRUE, v, <<r.calls>>)
                    EXCEPT !.piped = r.piped]
             Checked(v) ==
                 IF ~v.is_valid
                 THEN Response(400, v.error, NoResult, FALSE, <<>>, TRUE, v, <<>>)
                 ELSE Answer(v, predict(svc, data.text, data.type))
         IN  Checked(validate_prediction_input(data))

\* the body of the loop of api_batch_predict() for the item at index
\* (0-based): the entry appended and the pipeline stages run
ApiItemOutcome(svc, item, index) ==
    LET Predicted(r) ==
            [entry |-> IF r.exc # ""
                       THEN Entry(index, FALSE, "Processing error", NoResult)
                       ELSE Entry(index, TRUE, "", ApiData(r.result, item.type)),
             calls |-> r.calls]
        Checked(v) ==
            IF ~v.is_valid
            THEN [entry |-> Entry(index, FALSE, v.error, NoResult), calls |-> <<>>]
            ELSE Predicted(predict(svc, item.text, item.type))
    IN  Checked(validate_prediction_input(item))

\* api_batch_predict with len(results) as 'successful_predictions'
api_batch_predict_counting_all(svc, body) ==
    IF ~svc.exists
    THEN ErrorResponse(503, "Prediction service unavailable")
    ELSE IF body.shape \in {"null", "nokey"}
    THEN ErrorResponse(400, "Items array is required for batch prediction")
    ELSE IF body.shape # "list" \/ Len(body.items) = 0
    THEN ErrorResponse(400, "Items must be a non-empty array")
    ELSE IF Len(body.items) > MAX_BATCH_SIZE
    THEN ErrorResponse(400, "Batch size cannot exceed 50 items")
    ELSE LET Answer(results, calls) ==
                 [Response(200, "", NoResult, TRUE, results, TRUE, Valid, calls)
                    EXCEPT !.total_items = Len(body.items),
                           !.successful_predictions =
                               Len(results)]
             Collected(outs) ==
                 Answer(<<>> \o [i \in 1..Len(outs) |-> outs[i].entry],
                        <<>> \o [i \in 1..Len(outs) |-> outs[i].calls])
         IN  Collected(<<>> \o [i \in 1..Len(body.items) |->
                                   ApiItemOutcome(svc, body.items[i], i - 1)])

\* routes.py api_batch_predict()
api_batch_predict(svc, body) ==
    IF ~svc.exists
    THEN ErrorResponse(503, "Prediction service unavailable")
    ELSE IF body.shape \in {"null", "nokey"}
    THEN ErrorResponse(400, "Items array is required for batch prediction")
    ELSE IF body.shape # "list" \/ Len(body.items) = 0
    THEN ErrorResponse(400, "Items must be a non-empty array")
    ELSE IF Len(body.items) > MAX_BATCH_SIZE
    THEN ErrorResponse(400, "Batch size cannot exceed 50 items")
    ELSE LET Answer(results, calls) ==
                 [Response(200, "", NoResult, TRUE, results, TRUE, Valid, calls)
                    EXCEPT !.total_items = Len(body.items),
                           !.successful_predictions =
                               Cardinality({i \in 1..Len(results) : results[i].success})]
             Collected(outs) ==
                 Answer(<<>> \o [i \in 1..Len(outs) |-> outs[i].entry],
                        <<>> \o [i \in 1..Len(outs) |-> outs[i].calls])
         IN  Collected(<<>> \o [i \in 1..Len(body.items) |->
                                   ApiItemOutcome(svc, body.items[i], i - 1)])

\* main.py health_check(): get_model_status() is get_model_info()
health_check(svc) ==
    LET Answer(status) ==
            IF status.models_loaded
            THEN [status |-> 200, health |-> "healthy", models_loaded |-> TRUE]
            ELSE [status |-> 503, health |-> "unhealthy", models_loaded |-> FALSE]
    IN  Answer(get_model_info(svc))

\* routes.py api_health(): model_info['models_ready'] raises KeyError when
\* get_model_info() returns a dict without that key, and the except branch
\* answers 500
api_health(svc) ==
    LET Ready(model_info) ==
            IF "models_ready" \notin DOMAIN model_info
            THEN [status |-> 500, health |-> "unhealthy", models_loaded |-> FALSE]
            ELSE [status |-> 200, health |-> "healthy", models_loaded |-> svc.exists]
    IN  IF svc.exists
        THEN Ready(get_model_info(svc))
        ELSE [status |-> 200, health |-> "healthy", models_loaded |-> svc.exists]

(***************************************************************************)
(* Inputs                                                                  *)
(***************************************************************************)

\* the length bound of the exhaustively enumerated texts
MaxShortLen == 3
\* the length bound of the exhaustively enumerated batches
MaxItems == 2

RECURSIVE SeqsUpTo(_, _)
SeqsUpTo(S, n) ==
    IF n = 0 THEN {<<>>}
    ELSE LET shorter == SeqsUpTo(S, n - 1)
         IN  shorter \cup {Append(t, c) : t \in shorter, c \in S}

Rep(c, n) == <<>> \o [i \in 1..n |-> c]

SampleTexts ==
    {Chars("hi"),
     Chars("example"),
     Chars("Some content"),
     Chars("  ok valid text here \n"),
     Chars("<script>alert(1)</script> hello there"),
     Chars("Urgent! Verify your account now: http://fake-bank.com/verify"),
     Chars("http://192.168.0.1/login"),
     Chars("http://suspicious-site.com/login"),
     Chars("fake-bank.com/verify"),
     Chars("http://"),
     Chars("http://[::1"),
     <<"/">> \o Rep("x", MAX_URL_LENGTH + 2),
     Chars("http://a.co/") \o Rep("x", MAX_URL_LENGTH),
     Rep("x", MAX_TEXT_LENGTH + 1)}

\* every text of up to MaxShortLen characters over three characters, and
\* the sample texts
Texts == SeqsUpTo({"a", " ", "/"}, MaxShortLen) \cup SampleTexts

TextVals == {Missing, Null, Num} \cup {Str(t) : t \in Texts}

TypeVals ==
    {Missing, Null, Num} \cup
    {Str(t) : t \in {EMAIL, URL, Chars("EMAIL"), Chars(" url "),
                     Chars("invalid_type"), <<>>}}

NonDicts == {NullData, NumData, StrData(Chars("oops")), StrData(Chars("text type"))}

\* the request bodies given to the validator
Requests ==
    {Dict(text, type) : text \in TextVals, type \in TypeVals} \cup NonDicts

\* the request bodies posted to the prediction endpoints
HandlerRequests ==
    {Dict(text, type) :
        text \in {Missing, Null, Num, Str(<<>>), Str(<<" ">>), Str(<<"a">>)}
                    \cup {Str(t) : t \in SampleTexts},
        type \in TypeVals} \cup NonDicts

\* the arguments of direct predict_text calls
DirectRequests ==
    {Dict(text, type) :
        text \in {Num, Str(<<>>), Str(Chars("Some content")), Str(Chars("Pay me")),
                  Str(Chars("http://192.168.0.1/login")), Str(Chars("http://[::1"))},
        type \in {Null, Str(EMAIL), Str(URL), Str(Chars("EMAIL")),
                  Str(Chars("invalid_type"))}}

GoodEmailItem == Dict(Str(Chars("Some content")), Str(EMAIL))

\* the kinds of batch items: valid ones, ones the validator rejects, ones
\* on which feature extraction fails, and ones that are no request objects
BatchItems ==
    {GoodEmailItem,
     Dict(Str(Chars("http://192.168.0.1/login")), Str(URL)),
     Dict(Str(Chars("x")), Str(Chars("bogus"))),
     Dict(Str(Chars("hi")), Str(EMAIL)),
     Dict(Str(Chars("http://[::1")), Str(URL)),
     Dict(Num, Str(URL)),
     Dict(Missing, Str(EMAIL)),
     StrData(Chars("oops"))}

\* items padded with valid items up to n items
Pad(items, n) == items \o [i \in 1..(n - Len(items)) |-> GoodEmailItem]

Bodies ==
    {Body("list", items) : items \in SeqsUpTo(BatchItems, MaxItems)}
      \cup {Body("list", Pad(items, n)) :
                items \in SeqsUpTo(BatchItems, 1),
                n \in {MAX_BATCH_SIZE, MAX_BATCH_SIZE + 1}}
      \cup {NoBody, Body("nokey", <<>>),
            Body("notlist", <<StrData(<<"a">>), StrData(<<"b">>)>>)}

\* the arguments of direct predict_batch calls
DirectBatches ==
    {<<>>, <<GoodEmailItem>>,
     <<GoodEmailItem, StrData(Chars("oops"))>>,
     <<StrData(Chars("oops")), GoodEmailItem>>,
     <<Dict(Num, Str(URL)), GoodEmailItem>>,
     <<Dict(Str(Chars("x")), Str(Chars("bogus"))), GoodEmailItem>>,
     Pad(<<>>, MAX_BATCH_SIZE + 1)}

\* the arguments of direct preprocess_email calls: every text of up to
\* MaxShortLen characters over four characters, and sample texts
PreprocessInputs ==
    {Null, Num} \cup
    {Str(t) : t \in SeqsUpTo({"a", " ", "1", "."}, MaxShortLen) \cup
                    {Chars("a 1 b"),
                     Chars("ww.wa"),
                     Chars("x\t1\ny"),
                     Chars("Hello, World! 123"),
                     Chars("Call 555-123-4567 now"),
                     Chars("<b>Hi</b> there"),
                     Chars("mail me@x.com now"),
                     Chars("Visit http://x.com today")}}

\* the (confidence, is_phishing) arguments of direct _calculate_risk_level
\* calls, confidences in units of 1/10000
RiskConfidences == {0, 1, 5999, 6000, 6001, 7999, 8000, 8001, 9999, 10000}

\* the number of requests that main.py serves at a time
NumThreads == 2

\* the requests served concurrently: (text, content_type) as main.py's
\* predict hands them to predict_text
ThreadRequests ==
    {Dict(Str(Chars("Pay me")), Str(EMAIL)),
     Dict(Str(Chars("http://192.168.0.1/login")), Str(URL)),
     Dict(Str(Chars("http://[::1")), Str(URL))}

\* the arguments of direct extract_features calls
FeatureUrls ==
    {Num,
     Str(Chars("http://192.168.0.1/login")),
     Str(Chars("fake-bank.com/verify")),
     Str(Chars("http://a.b.c.example-site.com//x@y")),
     Str(Chars("not a url")),
     Str(Chars("http://example.com/192.168.0.1")),
     Str(Chars("http://bit.ly/abc")),
     Str(Chars("http://internet.com/a")),
     Str(Chars("http://[::1"))}

\* feature vectors handed to URLClassifier.predict directly
FeatureVectors ==
    {extract_features(Str(Chars("http://192.168.0.1/login")), n).features :
        n \in {FeatureDimOf(r) : r \in UrlReleases} \cup {DEFAULT_EXPECTED_FEATURES}}

(***************************************************************************)
(* State                                                                   *)
(***************************************************************************)

VARIABLES
    deployment,  \* which program runs: "main" (main.py), "routes"
                 \* (api/routes.py), "direct" (a caller of the
                 \* PredictionService API), "validator" (a caller of
                 \* InputValidator alone) or "preprocessor" (a caller of
                 \* TextPreprocessor alone)
    pc,          \* "init", "serving", or "crashed" (main.py failed to import)
    service,     \* the PredictionService object
    last,        \* the operation that has just completed, with its answer
    hist,        \* history: what the loads so far did
    inflight     \* per thread of main.py, the predict_text call it is in

vars == <<deployment, pc, service, last, hist, inflight>>

Deployments == {"main", "routes", "direct", "validator", "preprocessor"}

\* no operation in flight
Idle ==
    [op |-> "idle", req |-> NullData, body |-> NoBody, features |-> <<>>,
     status |-> 0, exc |-> "", error |-> "", result |-> NoResult,
     has_results |-> FALSE, results |-> <<>>,
     validated |-> FALSE, validation |-> Valid, calls |-> <<>>,
     pair |-> NoPair, ready_before |-> FALSE, risk_level |-> "",
     processed |-> <<>>, probabilities |-> <<>>, health |-> "",
     piped |-> <<>>, total_items |-> 0, successful_predictions |-> 0,
     info |-> [models_loaded |-> FALSE, email_classifier_loaded |-> FALSE,
               url_classifier_loaded |-> FALSE]]

\* the record of a handler call and its response
Handled(op, req, body, resp) ==
    [Idle EXCEPT !.op = op, !.req = req, !.body = body,
                 !.status = resp.status, !.error = resp.error,
                 !.result = resp.result, !.has_results = resp.has_results,
                 !.results = resp.results, !.validated = resp.validated,
                 !.validation = resp.validation, !.calls = resp.calls,
                 !.piped = resp.piped,
                 !.total_items = resp.total_items,
                 !.successful_predictions = resp.successful_predictions]

\* a thread that serves no request; otherwise pc is "begun" (predict_text
\* has found the models loaded), "staged" (staged holds the normalized
\* text or the feature vector) or "done" (the call has returned or raised)
Free ==
    [pc |-> "free", req |-> NullData, staged |-> <<>>,
     exc |-> "", error |-> "", result |-> NoResult]

NoHistory == [failed |-> FALSE, email_ok |-> FALSE, url_ok |-> FALSE]

\* hist after a load_models call with outcome o that started in svc
Loaded(h, svc, o, raised) ==
    [failed   |-> h.failed \/ (raised /\ ~svc.models_loaded),
     email_ok |-> h.email_ok \/ (o.dir /\ o.email = "ok"),
     url_ok   |-> h.url_ok \/ (o.dir /\ o.email = "ok" /\ o.url = "ok")]

Init ==
    /\ deployment \in Deployments
    /\ pc = "init"
    /\ service = NoService
    /\ last = Idle
    /\ hist = NoHistory
    /\ inflight = [t \in 1..NumThreads |-> Free]

(***************************************************************************)
(* Actions                                                                 *)
(***************************************************************************)

\* main.py lines 10-11: the service is constructed and loaded while the
\* module is imported; an exception of load_models ends the import.
MainStart ==
    /\ deployment = "main"
    /\ pc = "init"
    /\ \E o \in LoadOutcomes :
         LET Done(r) ==
                 /\ service' = r.svc
                 /\ pc' = IF r.raised THEN "crashed" ELSE "serving"
                 /\ hist' = Loaded(hist, NewService, o, r.raised)
                 /\ last' = [Idle EXCEPT !.op = "load_models",
                                         !.exc = IF r.raised THEN "Exception" ELSE "",
                                         !.ready_before = NewService.models_loaded]
         IN  Done(load_models(NewService, o))
    /\ UNCHANGED <<deployment, inflight>>

\* routes.py lines 18-22: the service is constructed, never loaded;
\* prediction_service is None when the constructor raised.
RoutesStart ==
    /\ deployment = "routes"
    /\ pc = "init"
    /\ \E constructed \in BOOLEAN :
         service' = IF constructed THEN NewService ELSE NoService
    /\ pc' = "serving"
    /\ UNCHANGED <<deployment, last, hist, inflight>>

\* PredictionService()
Construct ==
    /\ deployment = "direct"
    /\ pc = "init"
    /\ service' = NewService
    /\ pc' = "serving"
    /\ UNCHANGED <<deployment, last, hist, inflight>>

\* the program d accepts a call: no call is being answered and no thread
\* is inside predict_text
Serving(d) ==
    /\ deployment = d
    /\ pc = "serving"
    /\ last.op = "idle"
    /\ \A t \in 1..NumThreads : inflight[t].pc = "free"

\* PredictionService.load_models(), called by a user of the service; the
\* application that registers the blueprint of routes.py is such a user of
\* the service of routes.py, which routes.py itself never loads
LoadModels ==
    /\ Serving("direct") \/ (Serving("routes") /\ service.exists)
    /\ \E o \in LoadOutcomes :
         LET Done(r) ==
                 /\ service' = r.svc
                 /\ hist' = Loaded(hist, service, o, r.raised)
                 /\ last' = [Idle EXCEPT !.op = "load_models",
                                         !.exc = IF r.raised THEN "Exception" ELSE "",
                                         !.ready_before = service.models_loaded]
         IN  Done(load_models(service, o))
    /\ UNCHANGED <<deployment, pc, inflight>>

\* PredictionService.predict_text(text, content_type)
PredictText ==
    /\ Serving("direct")
    /\ \E req \in DirectRequests :
         LET Done(r) ==
                 last' = [Idle EXCEPT !.op = "predict_text", !.req = req,
                                      !.exc = r.exc, !.error = r.msg,
                                      !.result = r.result,
                                      !.calls = <<r.calls>>]
         IN  Done(predict_text(service, req.text, req.type))
    /\ UNCHANGED <<deployment, pc, service, hist, inflight>>

\* PredictionService.predict_batch(items)
PredictBatch ==
    /\ Serving("direct")
    /\ \E items \in DirectBatches :
         LET Done(r) ==
                 last' = [Idle EXCEPT !.op = "predict_batch",
                                      !.body = Body("list", items),
                                      !.exc = r.exc, !.error = r.msg,
                                      !.has_results = (r.exc = ""),
                                      !.results = r.results, !.calls = r.calls]
         IN  Done(predict_batch(service, items))
    /\ UNCHANGED <<deployment, pc, service, hist, inflight>>

\* EmailClassifier.predict(text) on the service's email classifier
EmailPredict ==
    /\ Serving("direct")
    /\ \E text \in {Chars("some content"), Chars("verify account now")} :
         LET Done(r) ==
                 last' = [Idle EXCEPT !.op = "email_predict",
                                      !.req = Dict(Str(text), Str(EMAIL)),
                                      !.exc = r.exc, !.error = r.msg, !.pair = r.pair]
         IN  Done(EmailClassifierPredict(service.email_classifier, text))
    /\ UNCHANGED <<deployment, pc, service, hist, inflight>>

\* URLClassifier.predict(features) on the service's URL classifier
UrlPredict ==
    /\ Serving("direct")
    /\ \E f \in FeatureVectors :
         LET Done(r) ==
                 last' = [Idle EXCEPT !.op = "url_predict", !.features = f,
                                      !.exc = r.exc, !.error = r.msg, !.pair = r.pair]
         IN  Done(URLClassifierPredict(service.url_classifier, f))
    /\ UNCHANGED <<deployment, pc, service, hist, inflight>>

\* URLClassifier.extract_features(url) on the service's URL classifier
ExtractFeatures ==
    /\ Serving("direct")
    /\ \E url \in FeatureUrls :
         LET Done(r) ==
                 last' = [Idle EXCEPT !.op = "extract_features",
                                      !.req = Dict(url, Str(URL)),
                                      !.exc = r.exc, !.error = r.msg,
                                      !.features = r.features]
         IN  Done(extract_features(url, service.url_classifier.expected_features))
    /\ UNCHANGED <<deployment, pc, service, hist, inflight>>

\* EmailClassifier.predict_proba(text) on the service's email classifier
EmailPredictProba ==
    /\ Serving("direct")
    /\ \E text \in {Chars("some content")} :
         LET Done(r) ==
                 last' = [Idle EXCEPT !.op = "email_predict_proba",
                                      !.req = Dict(Str(text), Str(EMAIL)),
                                      !.exc = r.exc, !.error = r.msg,
                                      !.probabilities = r.probabilities]
         IN  Done(EmailClassifierPredictProba(service.email_classifier, text))
    /\ UNCHANGED <<deployment, pc, service, hist, inflight>>

\* URLClassifier.predict_proba(features) on the service's URL classifier
UrlPredictProba ==
    /\ Serving("direct")
    /\ \E f \in FeatureVectors :
         LET Done(r) ==
                 last' = [Idle EXCEPT !.op = "url_predict_proba", !.features = f,
                                      !.exc = r.exc, !.error = r.msg,
                                      !.probabilities = r.probabilities]
         IN  Done(URLClassifierPredictProba(service.url_classifier, f))
    /\ UNCHANGED <<deployment, pc, service, hist, inflight>>

\* PredictionService.get_model_info()
GetModelInfo ==
    /\ Serving("direct")
    /\ last' = [Idle EXCEPT !.op = "get_model_info",
                            !.info = get_model_info(service)]
    /\ UNCHANGED <<deployment, pc, service, hist, inflight>>

\* PredictionService._calculate_risk_level(confidence, is_phishing); the
\* arguments are kept in last.pair
CalculateRiskLevel ==
    /\ Serving("direct")
    /\ \E confidence \in RiskConfidences, is_phishing \in BOOLEAN :
         last' = [Idle EXCEPT !.op = "_calculate_risk_level",
                              !.pair = [prediction |-> IF is_phishing THEN 1 ELSE 0,
                                        confidence |-> confidence],
                              !.risk_level =
                                  _calculate_risk_level(confidence, is_phishing)]
    /\ UNCHANGED <<deployment, pc, service, hist, inflight>>

\* InputValidator.validate_prediction_input(data)
Validate ==
    /\ deployment = "validator"
    /\ last.op = "idle"
    /\ \E data \in Requests :
         last' = [Idle EXCEPT !.op = "validate", !.req = data,
                              !.validated = TRUE,
                              !.validation = validate_prediction_input(data)]
    /\ UNCHANGED <<deployment, pc, service, hist, inflight>>

\* TextPreprocessor().preprocess_email(text)
PreprocessEmail ==
    /\ deployment = "preprocessor"
    /\ last.op = "idle"
    /\ \E text \in PreprocessInputs :
         last' = [Idle EXCEPT !.op = "preprocess_email",
                              !.req = Dict(text, Missing),
                              !.processed = preprocess_email(text)]
    /\ UNCHANGED <<deployment, pc, service, hist, inflight>>

\* POST /predict (main.py)
MainPredict ==
    /\ Serving("main")
    /\ \E data \in HandlerRequests :
         last' = Handled("main_predict", data, NoBody, main_predict(service, data))
    /\ UNCHANGED <<deployment, pc, service, hist, inflight>>

\* POST /api/v1/batch-predict (main.py)
MainBatchPredict ==
    /\ Serving("main")
    /\ \E body \in Bodies :
         last' = Handled("main_batch_predict", NullData, body,
                         main_batch_predict(service, body))
    /\ UNCHANGED <<deployment, pc, service, hist, inflight>>

\* POST /api/v1/predict (routes.py)
ApiPredict ==
    /\ Serving("routes")
    /\ \E data \in HandlerRequests :
         last' = Handled("api_predict", data, NoBody, api_predict(service, data))
    /\ UNCHANGED <<deployment, pc, service, hist, inflight>>

\* POST /api/v1/batch-predict (routes.py)
ApiBatchPredict ==
    /\ Serving("routes")
    /\ \E body \in Bodies :
         last' = Handled("api_batch_predict", NullData, body,
                         api_batch_predict(service, body))
    /\ UNCHANGED <<deployment, pc, service, hist, inflight>>

\* GET /health (main.py); the body's 'models_loaded' is kept in
\* last.info
HealthCheck ==
    /\ Serving("main")
    /\ LET Done(r) ==
               last' = [Idle EXCEPT !.op = "health_check", !.status = r.status,
                                    !.health = r.health,
                                    !.info.models_loaded = r.models_loaded]
       IN  Done(health_check(service))
    /\ UNCHANGED <<deployment, pc, service, hist, inflight>>

\* GET /api/v1/health (routes.py)
ApiHealth ==
    /\ Serving("routes")
    /\ LET Done(r) ==
               last' = [Idle EXCEPT !.op = "api_health", !.status = r.status,
                                    !.health = r.health,
                                    !.info.models_loaded = r.models_loaded]
       IN  Done(api_health(service))
    /\ UNCHANGED <<deployment, pc, service, hist, inflight>>

\* main.py under a threaded server: a thread enters predict_text with a
\* request (lines 51-52: the models_loaded test)
BeginRequest ==
    /\ deployment = "main"
    /\ pc = "serving"
    /\ last.op = "idle"
    /\ \E t \in 1..NumThreads, req \in ThreadRequests :
         /\ inflight[t].pc = "free"
         /\ inflight' =
               [inflight EXCEPT ![t] =
                   IF ~service.models_loaded
                   THEN [Free EXCEPT !.pc = "done", !.req = req,
                                     !.exc = "RuntimeError",
                                     !.error = "Models not loaded"]
                   ELSE [Free EXCEPT !.pc = "begun", !.req = req]]
    /\ UNCHANGED <<deployment, pc, service, last, hist>>

\* the first stage of _predict_email and of _predict_url for the call th:
\* preprocess_email, extract_features
Staged(svc, th) ==
    IF th.req.type = Str(EMAIL)
    THEN [th EXCEPT !.pc = "staged", !.staged = preprocess_email(th.req.text)]
    ELSE LET Extracted(f) ==
                 IF f.raised
                 THEN [th EXCEPT !.pc = "done", !.exc = f.exc, !.error = f.msg]
                 ELSE [th EXCEPT !.pc = "staged", !.staged = f.features]
         IN  Extracted(extract_features(th.req.text,
                                        svc.url_classifier.expected_features))

\* a thread's extract_features stores the number of features it produced
\* in self.expected_features
RunStageAdoptingLength ==
    /\ deployment = "main"
    /\ last.op = "idle"
    /\ \E t \in 1..NumThreads :
         /\ inflight[t].pc = "begun"
         /\ inflight' = [inflight EXCEPT ![t] = Staged(service, inflight[t])]
         /\ service' =
               IF inflight'[t].pc = "staged" /\ inflight[t].req.type = Str(URL)
               THEN [service EXCEPT !.url_classifier.expected_features =
                                        Len(inflight'[t].staged)]
               ELSE service
    /\ UNCHANGED <<deployment, pc, last, hist>>

\* a thread runs the first stage of its call
RunStage ==
    /\ deployment = "main"
    /\ last.op = "idle"
    /\ \E t \in 1..NumThreads :
         /\ inflight[t].pc = "begun"
         /\ inflight' = [inflight EXCEPT ![t] = Staged(service, inflight[t])]
    /\ UNCHANGED <<deployment, pc, service, last, hist>>

\* the second stage of _predict_email and of _predict_url for the call th:
\* the classifier's predict, then the result is assembled
Classified(svc, th) ==
    LET Assembled(p, content_type) ==
            IF p.exc # ""
            THEN [th EXCEPT !.pc = "done", !.exc = p.exc, !.error = p.msg]
            ELSE [th EXCEPT !.pc = "done", !.result = Assemble(p.pair, content_type)]
    IN  IF th.req.type = Str(EMAIL)
        THEN Assembled(EmailClassifierPredict(svc.email_classifier, th.staged), "email")
        ELSE Assembled(URLClassifierPredict(svc.url_classifier, th.staged), "url")

\* a thread runs the classifier of its call
RunClassifier ==
    /\ deployment = "main"
    /\ last.op = "idle"
    /\ \E t \in 1..NumThreads :
         /\ inflight[t].pc = "staged"
         /\ inflight' = [inflight EXCEPT ![t] = Classified(service, inflight[t])]
    /\ UNCHANGED <<deployment, pc, service, last, hist>>

\* a thread answers its request
Respond ==
    /\ deployment = "main"
    /\ \E t \in 1..NumThreads :
         /\ inflight[t].pc = "done"
         /\ inflight' = [inflight EXCEPT ![t] = Free]
    /\ UNCHANGED <<deployment, pc, service, last, hist>>

\* the answer has been handed to the caller
Deliver ==
    /\ last.op # "idle"
    /\ pc # "crashed"
    /\ last' = Idle
    /\ UNCHANGED <<deployment, pc, service, hist, inflight>>

Next ==
    \/ MainStart
    \/ RoutesStart
    \/ Construct
    \/ LoadModels
    \/ PredictText
    \/ PredictBatch
    \/ EmailPredict
    \/ UrlPredict
    \/ ExtractFeatures
    \/ EmailPredictProba
    \/ UrlPredictProba
    \/ GetModelInfo
    \/ CalculateRiskLevel
    \/ Validate
    \/ PreprocessEmail
    \/ MainPredict
    \/ MainBatchPredict
    \/ ApiPredict
    \/ ApiBatchPredict
    \/ HealthCheck
    \/ ApiHealth
    \/ BeginRequest
    \/ RunStage
    \/ RunClassifier
    \/ Respond
    \/ Deliver

Spec == Init /\ [][Next]_vars

(***************************************************************************)
(* Properties                                                              *)
(***************************************************************************)

BatchOps == {"predict_batch", "main_batch_predict", "api_batch_predict"}
SingleOps == {"predict_text", "main_predict", "api_predict"}

\* the operation just completed was a batch, given to a service that
\* exists, that passes the batch-level checks: a list of 1 to 50 items
SizedBatchDone ==
    /\ last.op \in BatchOps
    /\ service.exists
    /\ last.body.shape = "list"
    /\ Len(last.body.items) \in 1..MAX_BATCH_SIZE

\* the operation just completed was a batch of no item or of too many,
\* given to a service that exists
MissizedBatchDone ==
    /\ last.op \in BatchOps
    /\ service.exists
    /\ last.body.shape = "list"
    /\ Len(last.body.items) \notin 1..MAX_BATCH_SIZE

\* a request object whose text is a string
WellFormed(item) == item.shape = "dict" /\ item.text.k = "str"

\* the type value is exactly 'email' or 'url'
ExactType(data) == data.shape = "dict" /\ data.type \in {Str(EMAIL), Str(URL)}

\* no normalizer, feature extractor or classifier was invoked
NoStageRan(calls) == \A i \in 1..Len(calls) : calls[i] = <<>>

\* the caller was refused as a whole
Rejected ==
    IF last.op = "predict_batch" THEN last.exc # "" ELSE last.status = 400

\* C1: a batch of N items, 1 <= N <= 50, returns exactly N per-item results
\* and the result at position i carries the index of item i.
C1_BatchResultsIndexed ==
    SizedBatchDone =>
        /\ last.has_results
        /\ Len(last.results) = Len(last.body.items)
        /\ \A i \in 1..Len(last.results) : last.results[i].index = i - 1

\* C2: a failing item never aborts the batch: every item of a batch of 1
\* to 50 items gets its own entry, and an item that is no well-formed
\* request object, or whose text is no string, gets a failure entry.
C2_BatchFailureIsolated ==
    SizedBatchDone =>
        /\ last.exc = ""
        /\ last.status \in {0, 200}
        /\ Len(last.results) = Len(last.body.items)
        /\ \A i \in 1..Len(last.results) :
             ~WellFormed(last.body.items[i]) => ~last.results[i].success

\* C3: on every batch entry point, a batch of no item or of more than 50
\* items is rejected as a whole: no per-item result, no classifier invoked.
C3_MissizedBatchRejected ==
    MissizedBatchDone =>
        /\ Rejected
        /\ last.results = <<>>
        /\ NoStageRan(last.calls)

\* C4: while the classifiers are not Ready, every single and batch
\* prediction request is refused as service-unavailable: HTTP 503 from a
\* handler, "Models not loaded" from the coordinator; never a generic
\* internal error, never per-item errors.
C4_NotReadyRefused ==
    ~service.models_loaded =>
        /\ (/\ last.op \in {"main_predict", "api_predict"}
            /\ validate_prediction_input(last.req).is_valid)
             => last.status = 503
        /\ (last.op \in {"main_batch_predict", "api_batch_predict"} /\ SizedBatchDone)
             => (last.status = 503 /\ last.results = <<>>)
        /\ last.op = "predict_text"
             => (last.exc = "RuntimeError" /\ last.error = "Models not loaded")
        /\ (last.op = "predict_batch" /\ SizedBatchDone)
             => (last.exc # "" /\ last.results = <<>>)

\* C5: Ready and Failed are terminal: a service that is ready stays ready,
\* and a service whose load failed never becomes ready.
C5_LoadStatesTerminal ==
    [][/\ service.models_loaded => service'.models_loaded
       /\ hist.failed => ~service'.models_loaded]_vars

BothLoaded ==
    /\ service.email_classifier.is_loaded
    /\ service.url_classifier.is_loaded
    /\ hist.email_ok
    /\ hist.url_ok

\* C6: the coordinator is ready only with both classifiers loaded; a
\* load_models call that raises on a coordinator that was not ready leaves
\* it not ready; with fewer than both loaded, predict_text refuses every
\* request, and every result and every successful batch entry comes from
\* a service with both loaded.
C6_NeverServesHalfLoaded ==
    /\ service.models_loaded => BothLoaded
    /\ (last.op = "load_models" /\ last.exc # "" /\ ~last.ready_before)
         => ~service.models_loaded
    /\ (last.op = "predict_text" /\ ~BothLoaded)
         => /\ last.exc = "RuntimeError"
            /\ last.error = "Models not loaded"
            /\ last.result = NoResult
    /\ (last.result # NoResult) => BothLoaded
    /\ \A i \in 1..Len(last.results) : last.results[i].success => BothLoaded

\* C6 witness: predict_text refused a URL request and an email request is
\* refused as well while the email classifier alone is loaded.
C6_RefusedHalfLoaded ==
    /\ last.op = "predict_text"
    /\ hist.email_ok
    /\ service.email_classifier.is_loaded
    /\ ~hist.url_ok
    /\ last.req.type = Str(EMAIL)
    /\ last.req.text = Str(Chars("Some content"))
    /\ last.exc = "RuntimeError"

\* C7: predict of a classifier whose load has not succeeded raises
\* "Model not loaded" and returns no (label, confidence) pair.
C7_UnloadedClassifierRefuses ==
    /\ (last.op = "email_predict" /\ ~hist.email_ok)
         => /\ last.exc = "RuntimeError"
            /\ last.error = "Model not loaded"
            /\ last.pair = NoPair
    /\ (last.op = "url_predict" /\ ~hist.url_ok)
         => /\ last.exc = "RuntimeError"
            /\ last.error = "Model not loaded"
            /\ last.pair = NoPair

\* C7 witness: predict was refused by a URL classifier whose load raised
\* after its model had been assigned.
C7_RefusedAfterFailedLoad ==
    /\ last.op = "url_predict"
    /\ service.url_classifier.model # None
    /\ ~hist.url_ok
    /\ Len(last.features) = FeatureDimOf(service.url_classifier.model)
    /\ last.exc = "RuntimeError"

\* C8: on every entry path, no normalizer, feature extractor or
\* classifier is invoked for a request, or a batch item, that
\* InputValidator rejects.
C8_ValidationPrecedesPipeline ==
    /\ (last.op \in SingleOps /\ ~validate_prediction_input(last.req).is_valid)
         => NoStageRan(last.calls)
    /\ last.op \in BatchOps
         => \A i \in 1..Len(last.calls) :
              ~validate_prediction_input(last.body.items[i]).is_valid
                 => last.calls[i] = <<>>

\* C9: InputValidator reports no request valid whose type value is not
\* exactly 'email' or 'url', whatever its text; the batch handler that
\* validates gives such an item a failure entry.
C9_InexactTypeRejected ==
    /\ (/\ last.validated
        /\ last.op \in {"validate", "api_predict"}
        /\ ~ExactType(last.req))
         => ~last.validation.is_valid
    /\ last.op = "api_batch_predict"
         => \A i \in 1..Len(last.results) :
              ~ExactType(last.body.items[i]) => ~last.results[i].success

\* C9 witness: a valid email text with the type 'EMAIL' was validated and
\* rejected for its type.
C9_UppercaseTypeRejected ==
    /\ last.op = "validate"
    /\ last.req.text = Str(Chars("Some content"))
    /\ last.req.type = Str(Chars("EMAIL"))
    /\ last.validation = Invalid("Type must be one of: email, url")

\* the check a validator message belongs to
CheckOf(error) ==
    CASE error = "None" -> "none"
      [] error = "Request data is required" -> "request"
      [] error = "Text field is required" -> "text field"
      [] error = "Type field is required" -> "type field"
      [] error = "Type must be one of: email, url" -> "type value"
      [] error \in {"Text content must be a non-empty string",
                    "Text content cannot be empty"} -> "non-empty"
      [] error \in {"Text content is too long (max 10,000 characters)",
                    "Text content is too short (min 3 characters)",
                    "URL is too long (max 2048 characters)"} -> "length"
      [] OTHER -> "content"

\* the earliest failing check of a request (null or an object; null and
\* the empty object count as no request) in the order request, text field, type field, type value, text non-empty after
\* trim, length within [3, 10000] (a URL at most 2048), content
EarliestFailingCheck(data) ==
    IF Falsy(data) THEN "request"
    ELSE IF data.text.k = "missing" THEN "text field"
    ELSE IF data.type.k = "missing" THEN "type field"
    ELSE IF ~ExactType(data) THEN "type value"
    ELSE IF data.text.k # "str" \/ Strip(data.text.s) = <<>> THEN "non-empty"
    ELSE IF Len(Strip(data.text.s)) \notin MIN_TEXT_LENGTH..MAX_TEXT_LENGTH
    THEN "length"
    ELSE IF data.type.s = URL /\ Len(Strip(data.text.s)) > MAX_URL_LENGTH
    THEN "length"
    ELSE IF data.type.s = URL /\ ~_validate_url_content(Strip(data.text.s)).is_valid
    THEN "content"
    ELSE IF data.type.s = EMAIL /\ ~_validate_email_content(Strip(data.text.s)).is_valid
    THEN "content"
    ELSE "none"

\* C10: InputValidator stops at the first failing check of the order
\* request present, text field present, type field present and in
\* {email, url}, text non-empty after trim, text length, content; an
\* over-long URL is reported as too long before its format is judged.
C10_ChecksInOrder ==
    (last.op = "validate" /\ last.req.shape \in {"null", "dict"})
        => CheckOf(last.validation.error) = EarliestFailingCheck(last.req)

\* the number of characters of a request's text after text.strip()
TrimmedLen(data) == Len(Strip(data.text.s))

\* InputValidator was called on a request object whose text is a string
ValidatedText ==
    /\ last.validated
    /\ last.op \in {"validate", "api_predict"}
    /\ WellFormed(last.req)

\* C11: InputValidator reports no request valid whose trimmed text has
\* fewer than 3 or more than 10000 characters, nor a url request whose
\* trimmed text has more than 2048; when the type is email or url the
\* reason of a non-empty text under 3 characters is 'too short' and that
\* of a text over 10000 characters is 'too long'.
C11_LengthBoundsEnforced ==
    ValidatedText =>
        /\ (\/ TrimmedLen(last.req) < MIN_TEXT_LENGTH
            \/ TrimmedLen(last.req) > MAX_TEXT_LENGTH
            \/ (last.req.type = Str(URL) /\ TrimmedLen(last.req) > MAX_URL_LENGTH))
              => ~last.validation.is_valid
        /\ (ExactType(last.req) /\ TrimmedLen(last.req) \in 1..(MIN_TEXT_LENGTH - 1))
              => last.validation.error = "Text content is too short (min 3 characters)"
        /\ (ExactType(last.req) /\ TrimmedLen(last.req) > MAX_TEXT_LENGTH)
              => last.validation.error = "Text content is too long (max 10,000 characters)"

\* C11 witness: a well-formed URL of more than 2048 and at most 10000
\* characters was validated and rejected as too long.
C11_LongUrlRejected ==
    /\ last.op = "validate"
    /\ last.req.type = Str(URL)
    /\ last.req.text.k = "str"
    /\ TrimmedLen(last.req) > MAX_URL_LENGTH
    /\ TrimmedLen(last.req) <= MAX_TEXT_LENGTH
    /\ last.validation = Invalid("URL is too long (max 2048 characters)")

\* InputValidator was called on a request object of type 'email'
ValidatedEmail ==
    /\ last.validated
    /\ last.op \in {"validate", "api_predict"}
    /\ last.req.shape = "dict"
    /\ last.req.type = Str(EMAIL)

\* the text is a string of 3 to 10000 characters after trimming that
\* matches no malicious-pattern signature
CleanSizedText(text) ==
    /\ text.k = "str"
    /\ Len(Strip(text.s)) \in MIN_TEXT_LENGTH..MAX_TEXT_LENGTH
    /\ ~HasSuspiciousPattern(Strip(text.s))

\* C12: InputValidator reports a request of type email valid exactly
\* when its text is a string whose trimmed length is between 3 and 10000
\* and that matches none of the malicious-pattern signatures; nothing
\* else, such as the number of words, makes it invalid.
C12_EmailAcceptedExactly ==
    ValidatedEmail => (last.validation.is_valid <=> CleanSizedText(last.req.text))

\* a request object of type 'email' whose text matches a malicious-pattern
\* signature
MaliciousEmail(data) ==
    /\ data.shape = "dict"
    /\ data.type = Str(EMAIL)
    /\ data.text.k = "str"
    /\ HasSuspiciousPattern(data.text.s)

\* the classifier was invoked
ClassifierRan(calls) ==
    \E i \in 1..Len(calls) : \E j \in 1..Len(calls[i]) : calls[i][j] = "classify"

\* C13: an email request whose text contains a script tag, 'javascript:'
\* or 'data:text/html', in any letter case, is reported invalid by
\* InputValidator, and on no entry path is the classifier invoked for it.
C13_MaliciousEmailNeverClassified ==
    /\ (last.op \in {"validate", "api_predict"} /\ last.validated
           /\ MaliciousEmail(last.req))
         => ~last.validation.is_valid
    /\ (last.op \in SingleOps /\ MaliciousEmail(last.req))
         => ~ClassifierRan(last.calls)

\* the risk tier of a label and a confidence (in units of 1/10000): Low
\* for Safe; for Phishing High from 0.8, Medium from 0.6 to below 0.8,
\* Low below 0.6
TierOf(label, confidence) ==
    IF label = "Safe" THEN "Low"
    ELSE IF confidence >= 8000 THEN "High"
    ELSE IF confidence >= 6000 THEN "Medium"
    ELSE "Low"

C15_NormalizationIdempotent ==
    last.op = "preprocess_email"
        => preprocess_email(Str(last.processed)) = last.processed

\* C16: preprocess_email returns a string for every input and raises
\* nothing; for a null, an empty and a non-string input the string is
\* empty.
C16_NormalizationTotal ==
    last.op = "preprocess_email"
        => /\ last.exc = ""
           /\ last.processed \in Seq(STRING)
           /\ (last.req.text.k # "str" \/ last.req.text.s = <<>>)
                 => last.processed = <<>>

\* C16 witness: preprocess_email was given a number and returned the
\* empty string.
C16_NumberNormalizedToEmpty ==
    /\ last.op = "preprocess_email"
    /\ last.req.text = Num
    /\ last.processed = <<>>
    /\ last.exc = ""

\* C17: the feature vector extract_features returns has exactly as many
\* elements as the loaded model expects, whatever the URL: padded with
\* zeros above seven, cut to the first signals below seven.
C17_FeatureVectorHasExpectedLength ==
    (last.op = "extract_features" /\ last.exc = "")
        => Len(last.features) = service.url_classifier.expected_features

\* C18: extract_features returns a feature vector and raises nothing for
\* every URL text, malformed text included.
C18_ExtractionNeverRaises ==
    (last.op = "extract_features" /\ last.req.text.k = "str")
        => /\ last.exc = ""
           /\ last.features # <<>>

\* the fixed messages with which the handlers report an internal failure
GenericFailures == {"Internal server error", "Processing error"}

\* C19: when a pipeline stage has run for a request, or a batch item, and
\* has failed, the error the caller is given is a fixed generic message,
\* never the text of the internal exception: in the response of a single
\* prediction and in the error field of the batch item's entry.
C19_InternalErrorsNotDisclosed ==
    /\ (/\ last.op \in {"main_predict", "api_predict"}
        /\ last.calls # <<>>
        /\ last.calls[1] # <<>>
        /\ last.result = NoResult)
         => last.error \in GenericFailures
    /\ (last.op \in BatchOps /\ last.has_results)
         => \A i \in 1..Len(last.results) :
              (last.calls[i] # <<>> /\ ~last.results[i].success)
                 => last.results[i].error \in GenericFailures

\* the outcome of the call of thread t is the one predict_text gives the
\* same request on the service as it is
AsIfAlone(t) ==
    LET Same(r) ==
            /\ inflight[t].exc = r.exc
            /\ inflight[t].error = r.msg
            /\ inflight[t].result = r.result
    IN  Same(predict_text(service, inflight[t].req.text, inflight[t].req.type))

\* C20: only a load (and the construction at startup) changes the loaded
\* flags, the model references and the expected feature dimension: every
\* step of a prediction, of predict_proba, extract_features,
\* get_model_info and of the handlers leaves the service as it was; and
\* each of the requests that threads serve concurrently ends with the
\* outcome it has when served alone.
C20_OnlyLoadChangesModelHandles ==
    /\ [][service' # service => (last'.op = "load_models" \/ pc = "init")]_vars
    /\ [](\A t \in 1..NumThreads : inflight[t].pc = "done" => AsIfAlone(t))

\* C20 witness: one thread has its result while another is between
\* feature extraction and classification.
C20_ConcurrentRequestsServed ==
    /\ inflight[1].pc = "done"
    /\ inflight[1].result # NoResult
    /\ inflight[2].pc = "staged"
    /\ inflight[2].req.type = Str(URL)

\* the largest element of a non-empty sequence of numbers
Largest(ps) == CHOOSE p \in {ps[i] : i \in 1..Len(ps)} : \A i \in 1..Len(ps) : ps[i] <= p

\* the class probabilities of the classifier for the input of the call just
\* completed, as predict_proba reports them
ProbabilitiesOfLast ==
    IF last.op = "email_predict"
    THEN EmailClassifierPredictProba(service.email_classifier, last.req.text.s)
    ELSE IF last.op = "url_predict"
    THEN URLClassifierPredictProba(service.url_classifier, last.features)
    ELSE IF Lower(last.req.type.s) = EMAIL
    THEN EmailClassifierPredictProba(service.email_classifier,
                                     preprocess_email(last.req.text))
    ELSE URLClassifierPredictProba(
             service.url_classifier,
             extract_features(last.req.text,
                              service.url_classifier.expected_features).features)

\* C21: every successful prediction has a confidence between 0 and 1
\* (0 and 10000 in units of 1/10000), and the confidence that a classifier's
\* predict and the coordinator's predict_text return is the largest of the
\* class probabilities the classifier reports for that input.
C21_ConfidenceIsLargestProbability ==
    /\ (last.op \in {"email_predict", "url_predict"} /\ last.exc = "")
         => /\ last.pair.confidence \in 0..10000
            /\ ProbabilitiesOfLast.exc = ""
            /\ last.pair.confidence = Largest(ProbabilitiesOfLast.probabilities)
    /\ (last.op = "predict_text" /\ last.exc = "")
         => /\ last.result.confidence \in 0..10000
            /\ ProbabilitiesOfLast.exc = ""
            /\ last.result.confidence = Largest(ProbabilitiesOfLast.probabilities)
    /\ (last.op \in {"main_predict", "api_predict"} /\ last.status = 200)
         => last.result.confidence \in 0..10000
    /\ (last.op \in BatchOps /\ last.has_results)
         => \A i \in 1..Len(last.results) :
                last.results[i].success
                  => last.results[i].result.confidence \in 0..10000
    /\ \A t \in 1..NumThreads :
           (inflight[t].pc = "done" /\ inflight[t].exc = "")
             => inflight[t].result.confidence \in 0..10000

\* the email classifier has answered "phishing" (class 1) with a confidence
\* above one half: the largest probability is the one of the second class
C21_LargestIsSecondClass ==
    /\ last.op = "email_predict"
    /\ last.exc = ""
    /\ last.pair.prediction = 1
    /\ last.pair.confidence > 5000
    /\ last.pair.confidence = ProbabilitiesOfLast.probabilities[2]

\* C22: a prediction request whose text is the empty string is rejected as
\* a client error, with an error message that contains 'cannot be empty';
\* 'Text content cannot be empty' is the one message of the program that
\* does.
C22_EmptyTextCannotBeEmpty ==
    /\ (/\ last.op \in {"main_predict", "api_predict"}
        /\ service.exists
        /\ ExactType(last.req)
        /\ last.req.text = Str(<<>>))
         => /\ last.status = 400
            /\ last.error = "Text content cannot be empty"
    /\ (/\ last.op = "validate"
        /\ ExactType(last.req)
        /\ last.req.text = Str(<<>>))
         => /\ ~last.validation.is_valid
            /\ last.validation.error = "Text content cannot be empty"

\* C23: whenever the prediction service exists with its models loaded, a
\* health check answers 200 with status 'healthy', at the health endpoint
\* of main.py and at the one of routes.py.
C23_HealthyWhenLoaded ==
    (/\ last.op \in {"health_check", "api_health"}
     /\ service.exists
     /\ service.models_loaded)
      => /\ last.status = 200
         /\ last.health = "healthy"

\* a verified label mapping table was supplied with the model that the
\* classifier c holds; load_model stores a model, a vectorizer or a feature
\* dimension, and a flag, and nothing else
HasVerifiedMapping(c) ==
    /\ "label_mapping" \in DOMAIN c
    /\ c.label_mapping.verified

\* the classifier that serves requests of the given type
ClassifierFor(type) ==
    IF Lower(type.s) = EMAIL THEN service.email_classifier
    ELSE service.url_classifier

\* C24: a prediction is produced only when a verified mapping table from
\* raw to semantic labels has been supplied with the loaded model; without
\* one the request is rejected.
C24_PredictsOnlyWithVerifiedMapping ==
    /\ (last.op \in SingleOps /\ last.result # NoResult)
         => HasVerifiedMapping(ClassifierFor(last.req.type))
    /\ (last.op \in BatchOps /\ last.has_results)
         => \A i \in 1..Len(last.results) :
                last.results[i].success
                  => HasVerifiedMapping(ClassifierFor(last.body.items[i].type))

\* extract_features has just returned the signals of a URL text
Extracted ==
    /\ last.op = "extract_features"
    /\ last.exc = ""
    /\ last.req.text.k = "str"

\* the host part of the URL of the call just completed
HostOfLast == UrlSplit(last.req.text.s).netloc

\* C25: the first URL signal is 1 exactly when the host part of the URL
\* contains an IP literal, and -1 otherwise; a dotted quad in the path or
\* the query alone does not set it.
C25_IpSignalIsOfHost ==
    Extracted => last.features[1] = _has_ip_address(HostOfLast)

\* C26: the third URL signal is 1 exactly when the URL's domain is one of
\* the known link shorteners, and -1 otherwise; a host of which a shortener
\* name is merely a substring yields -1.
C26_ShortenerSignalIsMembership ==
    Extracted =>
        last.features[3] =
            IF Lower(HostOfLast) \in shortening_services THEN 1 ELSE -1

\* C27: the metadata of a batch answer of routes.py agree with its results:
\* total_items is the number of input items, successful_predictions is the
\* number of per-item results with success true, and it is at most
\* total_items.
C27_BatchMetadataConsistent ==
    (last.op = "api_batch_predict" /\ last.has_results)
      => /\ last.total_items = Len(last.body.items)
         /\ last.successful_predictions =
                Cardinality({i \in 1..Len(last.results) : last.results[i].success})
         /\ last.successful_predictions <= last.total_items

\* a batch answer of routes.py that mixes a served item and a refused one
C27_MixedBatchCounted ==
    /\ last.op = "api_batch_predict"
    /\ last.has_results
    /\ last.successful_predictions = 1
    /\ last.total_items = 2
    /\ \E i \in 1..Len(last.results) : ~last.results[i].success

\* C28: the text that reaches the normalizer or the feature extractor after
\* a successful validation is the text whose length was validated, the
\* trimmed one: it has 3 to 10000 characters, at most 2048 for a URL, and
\* no surrounding whitespace.
C28_PipelineGetsValidatedText ==
    (/\ last.op = "api_predict"
     /\ last.validated
     /\ last.validation.is_valid)
      => \A i \in 1..Len(last.piped) :
             /\ last.piped[i] = Str(Strip(last.req.text.s))
             /\ Len(last.piped[i].s) \in MIN_TEXT_LENGTH..MAX_TEXT_LENGTH
             /\ last.req.type = Str(URL) => Len(last.piped[i].s) <= MAX_URL_LENGTH

\* C29: for every URL text that the validator accepts, the feature
\* extractor sees the host that the validator recognised: the hyphen-in-host
\* and subdomain-count signals of a scheme-less URL, accepted after the
\* validator has prefixed 'http://', are those of that host and not those of
\* an empty host.
C29_ExtractorSeesValidatedHost ==
    (/\ last.op = "api_predict"
     /\ last.validated
     /\ last.validation.is_valid
     /\ last.req.type = Str(URL))
      => \A i \in 1..Len(last.piped) :
             LET host == UrlSplit(TestUrl(Strip(last.req.text.s))).netloc
                 f    == extract_features(last.piped[i],
                                          service.url_classifier.expected_features)
             IN  ~f.raised
                   => /\ f.features[6] = _has_prefix_suffix(host)
                      /\ f.features[7] = _count_subdomains(host)

\* C30: a load_model that raises leaves its classifier as it was.  After a
\* load_models call that raised, each classifier either has the model, the
\* vectorizer or feature dimension and the flag that it had before the
\* call, or is the outcome of a load_model of its own that completed.
C30_FailedLoadChangesNothing ==
    [][(last'.op = "load_models" /\ last'.exc # "")
         => /\ \/ service'.email_classifier = service.email_classifier
               \/ \E r \in EmailReleases :
                      service'.email_classifier =
                          [model |-> r, vectorizer |-> r, is_loaded |-> TRUE]
            /\ \/ service'.url_classifier = service.url_classifier
               \/ \E r \in UrlReleases :
                      service'.url_classifier =
                          [model |-> r, is_loaded |-> TRUE,
                           expected_features |-> FeatureDimOf(r)]]_vars

===========================================================================
